---- MODULE Spec2Model ----
(***************************************************************************)
(* A model of the shell of ikristina/codecrafters-shell-go: the tokenizer  *)
(* and operator scanner (app/command.go), and the pipeline executor with   *)
(* its builtins (app/command.go, app/builtins.go, app/utils.go).           *)
(*                                                                         *)
(* Strings are sequences of one-character strings, so that trimming,       *)
(* splitting, joining and quoting are computed character by character.     *)
(***************************************************************************)
EXTENDS Integers, Sequences, FiniteSets, TLC

VARIABLES
    \* the parser: the line, the trimmed input, the place in parseInput, the
    \* state of the scanner of parseQuotedArgs, the tokens, the Command returned
    line, input, pc, st, args, result,
    \* the executor: the chain runCommand was called on, the reader and the
    \* writer of the caller, the caller's flow of control, the run of every
    \* stage, the pipes, the contents of os.Stdout, os.Stderr and the caller's
    \* buffer, the files, and the files, streams and input at the time of the
    \* top-level call
    stages, callIn, callOut, main, task, pipe, sink, files, before,
    \* the session: Shell.history, Shell.historyAppendedCount, the working
    \* directory, the end of the process, the environment, the lines read
    history, historyAppendedCount, cwd, exited, env, nlines,
    \* what every stage has written to its stdout and read from its stdin
    wrote, readBy

parseVars == <<line, input, pc, st, args, result>>
execVars ==
    <<stages, callIn, callOut, main, task, pipe, sink, files, before, history,
      historyAppendedCount, cwd, exited, env, nlines, wrote, readBy>>
vars == <<parseVars, execVars>>

----------------------------------------------------------------------------
(* Bounds of the model.                                                    *)

\* longest line enumerated character by character
MaxLineLen == 4
\* most tokens of a line built from words and operator tokens
MaxTokens == 4
\* most tokens of a line built from words and the pipe token, or from a word,
\* two redirection operators and the pipe token
MaxPipeTokens == 6
\* most stages of a chain built from the core stages
MaxStages == 3
\* the bytes a pipe holds before a write to it blocks
PipeCap == 2
\* most lines a session reads
MaxLines == 2
\* most tokens of a line built from spelled tokens
MaxSpelledTokens == 3

----------------------------------------------------------------------------
(* Characters and strings.                                                 *)

SingleQuote == "'"
DoubleQuote == "\""
Backslash == "\\"
Space == " "
Tab == "\t"
\* byte(0), the value of quoteChar outside a quoted run
NoQuote == ""

\* unicode.IsSpace, restricted to the characters of the model
IsSpace(c) == c \in {Space, Tab, "\n"}

RECURSIVE TrimLeft(_)
TrimLeft(s) ==
    IF s = <<>> THEN <<>>
    ELSE IF IsSpace(Head(s)) THEN TrimLeft(Tail(s)) ELSE s

RECURSIVE TrimRight(_)
TrimRight(s) ==
    IF s = <<>> THEN <<>>
    ELSE IF IsSpace(s[Len(s)]) THEN TrimRight(SubSeq(s, 1, Len(s) - 1)) ELSE s

\* strings.TrimSpace
TrimSpace(s) == TrimRight(TrimLeft(s))

\* strings.ContainsAny
ContainsAny(s, chars) == \E k \in 1..Len(s) : s[k] \in chars

\* strings.Fields: scan left to right, a field ends at a white space character
RECURSIVE FieldsFrom(_, _, _, _)
FieldsFrom(s, k, cur, acc) ==
    IF k > Len(s) THEN (IF cur = <<>> THEN acc ELSE Append(acc, cur))
    ELSE IF IsSpace(s[k])
         THEN FieldsFrom(s, k + 1, <<>>, IF cur = <<>> THEN acc ELSE Append(acc, cur))
         ELSE FieldsFrom(s, k + 1, Append(cur, s[k]), acc)

Fields(s) == FieldsFrom(s, 1, <<>>, <<>>)

\* strings.Join
RECURSIVE Join(_, _)
Join(elems, sep) ==
    IF elems = <<>> THEN <<>>
    ELSE IF Len(elems) = 1 THEN elems[1]
    ELSE elems[1] \o sep \o Join(Tail(elems), sep)

----------------------------------------------------------------------------
(* Command descriptors.  Next is the empty sequence (nil) or a sequence    *)
(* holding the one following Command.                                       *)

EmptyCommand ==
    [Name |-> <<>>, Args |-> <<>>, RedirectFile |-> <<>>,
     RedirectStderr |-> FALSE, AppendMode |-> FALSE, Next |-> <<>>]

Command(name, cargs, file, toStderr, appendMode, next) ==
    [Name |-> name, Args |-> cargs, RedirectFile |-> file,
     RedirectStderr |-> toStderr, AppendMode |-> appendMode, Next |-> next]

\* the Commands of a chain, first to last
RECURSIVE Chain(_)
Chain(cmd) == <<cmd>> \o (IF cmd.Next = <<>> THEN <<>> ELSE Chain(cmd.Next[1]))

\* a normal return of parseInput, and a run-time panic (index or slice bound
\* out of range) inside it
Returned(cmd) == [ok |-> TRUE, cmd |-> cmd]
Panicked == [ok |-> FALSE, cmd |-> EmptyCommand]

----------------------------------------------------------------------------
(* parseQuotedArgs: the scanner state is the loop index i (1-based), the   *)
(* token under construction and the quote state.                           *)

QuotedInit ==
    [i |-> 1, currentArg |-> <<>>, inQuotes |-> FALSE, quoteChar |-> NoQuote,
     args |-> <<>>]

\* a backslash outside any quote: the byte after it is written, both are consumed
UnquotedEscapeKeepsBackslash(s, c, nextChar) ==
    [s EXCEPT !.currentArg = Append(@, c), !.i = @ + 1]

UnquotedEscape(s, c, nextChar) ==
    [s EXCEPT !.currentArg = Append(@, nextChar), !.i = @ + 2]

\* a backslash inside double quotes: before a backslash or a double quote the
\* byte after it is written and both are consumed, before any other byte the
\* backslash itself is written and only it is consumed
DoubleQuotedEscapeOfAnyByte(s, c, nextChar) ==
    [s EXCEPT !.currentArg = Append(@, nextChar), !.i = @ + 2]

DoubleQuotedEscape(s, c, nextChar) ==
    IF nextChar = Backslash \/ nextChar = DoubleQuote
    THEN [s EXCEPT !.currentArg = Append(@, nextChar), !.i = @ + 2]
    ELSE [s EXCEPT !.currentArg = Append(@, c), !.i = @ + 1]

\* the condition of the escape branch: a backslash that is not the last byte
\* and does not stand inside single quotes
EscapeAppliesInAnyQuote(in, s) ==
    in[s.i] = Backslash /\ s.i + 1 <= Len(in)

EscapeApplies(in, s) ==
    in[s.i] = Backslash /\ s.i + 1 <= Len(in) /\ s.quoteChar # SingleQuote

\* one iteration of the loop over the bytes of the input
QuotedStep(in, s) ==
    LET c == in[s.i] IN
    IF EscapeApplies(in, s)
    THEN LET nextChar == in[s.i + 1] IN
         IF s.quoteChar = DoubleQuote
         THEN DoubleQuotedEscape(s, c, nextChar)
         ELSE UnquotedEscape(s, c, nextChar)
    ELSE IF ~s.inQuotes /\ (c = SingleQuote \/ c = DoubleQuote)
    THEN [s EXCEPT !.inQuotes = TRUE, !.quoteChar = c, !.i = @ + 1]
    ELSE IF s.inQuotes /\ c = s.quoteChar
    THEN [s EXCEPT !.inQuotes = FALSE, !.quoteChar = NoQuote, !.i = @ + 1]
    ELSE IF c = Space /\ ~s.inQuotes
    THEN IF Len(s.currentArg) > 0
         THEN [s EXCEPT !.args = Append(@, s.currentArg), !.currentArg = <<>>,
                        !.i = @ + 1]
         ELSE [s EXCEPT !.i = @ + 1]
    ELSE [s EXCEPT !.currentArg = Append(@, c), !.i = @ + 1]

\* the statements after the loop: a non-empty token under construction is
\* emitted as the last token
QuotedEndRejectsOpenQuote(s) ==
    IF s.inQuotes THEN s.args
    ELSE IF s.currentArg # <<>> THEN Append(s.args, s.currentArg) ELSE s.args

QuotedEndEmitsAlways(s) == Append(s.args, s.currentArg)

QuotedEnd(s) ==
    IF Len(s.currentArg) > 0 THEN Append(s.args, s.currentArg) ELSE s.args

RECURSIVE QuotedRun(_, _)
QuotedRun(in, s) ==
    IF s.i > Len(in) THEN s ELSE QuotedRun(in, QuotedStep(in, s))

parseQuotedArgs(in) == QuotedEnd(QuotedRun(in, QuotedInit))

----------------------------------------------------------------------------
(* parseInput.                                                             *)

QuoteChars == {SingleQuote, DoubleQuote, Backslash}

\* the choice of the tokenizer: the quote-aware scanner when the input holds a
\* quote or a backslash, strings.Fields otherwise
UsesQuotedArgsAlways(in) == TRUE

UsesQuotedArgs(in) == ContainsAny(in, QuoteChars)

\* the token sequence parseInput works on, for a trimmed non-empty input
Tokenize(in) ==
    IF UsesQuotedArgs(in) THEN parseQuotedArgs(in) ELSE Fields(in)

Gt == <<">">>
Gt1 == <<"1", ">">>
Gt2 == <<"2", ">">>
GtGt == <<">", ">">>
Gt1Gt == <<"1", ">", ">">>
Gt2Gt == <<"2", ">", ">">>
Pipe == <<"|">>

RedirectOps == {Gt, Gt1, Gt2, GtGt, Gt1Gt, Gt2Gt}
Operators == RedirectOps \cup {Pipe}

\* the index of the first token that the loop treats as an operator: a token
\* that is the last one is skipped (i+1 >= len(args)); 0 when there is none
FirstOperatorPipeFirst(a) ==
    LET pipes == {k \in 1..(Len(a) - 1) : a[k] = Pipe}
        hits == IF pipes # {} THEN pipes ELSE {k \in 1..(Len(a) - 1) : a[k] \in Operators}
    IN
    IF hits = {} THEN 0 ELSE CHOOSE k \in hits : \A m \in hits : k <= m

FirstOperator(a) ==
    LET hits == {k \in 1..(Len(a) - 1) : a[k] \in Operators} IN
    IF hits = {} THEN 0 ELSE CHOOSE k \in hits : \A m \in hits : k <= m

\* the return statement of a redirection case: the operator and its operand
\* are cut out of args, args[0] is the name
RedirectReturnKeepsOperand(a, k, toStderr, appendMode) ==
    LET rest == SubSeq(a, 1, k - 1) \o SubSeq(a, k + 1, Len(a)) IN
    IF rest = <<>> THEN Panicked
    ELSE Returned(Command(TrimSpace(rest[1]), Tail(rest), a[k + 1],
                          toStderr, appendMode, <<>>))

RedirectReturn(a, k, toStderr, appendMode) ==
    LET rest == SubSeq(a, 1, k - 1) \o SubSeq(a, k + 2, Len(a)) IN
    IF rest = <<>> THEN Panicked
    ELSE Returned(Command(TrimSpace(rest[1]), Tail(rest), a[k + 1],
                          toStderr, appendMode, <<>>))

\* the return statement of the pipe case, nextCmd being the Command parsed from
\* the tokens after the pipe token: args[1:i] panics when the pipe token is
\* the first token
PipeReturnWithRedirect(a, k, nextCmd) ==
    IF ~nextCmd.ok \/ k = 1 THEN Panicked
    ELSE Returned(Command(TrimSpace(a[1]), SubSeq(a, 2, k - 1), nextCmd.cmd.RedirectFile,
                          nextCmd.cmd.RedirectStderr, nextCmd.cmd.AppendMode,
                          <<nextCmd.cmd>>))

PipeReturnKeepsTail(a, k, nextCmd) ==
    IF ~nextCmd.ok \/ k = 1 THEN Panicked
    ELSE Returned(Command(TrimSpace(a[1]), Tail(a), <<>>,
                          FALSE, FALSE, <<nextCmd.cmd>>))

PipeReturn(a, k, nextCmd) ==
    IF ~nextCmd.ok \/ k = 1 THEN Panicked
    ELSE Returned(Command(TrimSpace(a[1]), SubSeq(a, 2, k - 1), <<>>,
                          FALSE, FALSE, <<nextCmd.cmd>>))

RECURSIVE parseInput(_)
RECURSIVE ScanOperators(_)

\* the loop over args and the final return
ScanOperators(a) ==
    LET k == FirstOperator(a) IN
    IF k = 0
    THEN IF a = <<>> THEN Panicked
         ELSE Returned(Command(TrimSpace(a[1]), Tail(a), <<>>, FALSE, FALSE, <<>>))
    ELSE IF a[k] \in {Gt, Gt1} THEN RedirectReturn(a, k, FALSE, FALSE)
    ELSE IF a[k] = Gt2 THEN RedirectReturn(a, k, TRUE, FALSE)
    ELSE IF a[k] \in {GtGt, Gt1Gt} THEN RedirectReturn(a, k, FALSE, TRUE)
    ELSE IF a[k] = Gt2Gt THEN RedirectReturn(a, k, TRUE, TRUE)
    ELSE PipeReturn(a, k, parseInput(Join(SubSeq(a, k + 1, Len(a)), <<Space>>)))

parseInput(in) ==
    LET trimmed == TrimSpace(in) IN
    IF Len(trimmed) = 0 THEN Returned(EmptyCommand)
    ELSE ScanOperators(Tokenize(trimmed))

----------------------------------------------------------------------------
(* The environment of the shell: the search path, the directories and the  *)
(* files the session touches, and the external programs it launches.       *)

\* strings.Split(s, sep) for a separator of one byte
RECURSIVE SplitFrom(_, _, _, _)
SplitFrom(s, sep, cur, acc) ==
    IF s = <<>> THEN Append(acc, cur)
    ELSE IF Head(s) = sep THEN SplitFrom(Tail(s), sep, <<>>, Append(acc, cur))
    ELSE SplitFrom(Tail(s), sep, Append(cur, Head(s)), acc)

Split(s, sep) == SplitFrom(s, sep, <<>>, <<>>)

\* the value of PATH in the sessions that do not vary it
DefaultPath == <<"/", "u", "s", "r", "/", "b", "i", "n", ":", "/", "b", "i", "n">>

\* $PATH, split on ":"
PathDirs == Split(env.PATH, ":")

\* os.Stat: the permission bits of the files the lookups meet (ls in the
\* working directory among them), no entry for a file that does not exist
FileModes ==
    ( <<"/", "b", "i", "n", "/", "c", "a", "t">> :> 493 @@ <<"/", "b", "i", "n", "/", "l", "s">> :> 493 @@ <<"/", "b", "i", "n", "/", "e", "c", "h", "o">> :> 493 @@
      <<"/", "u", "s", "r", "/", "b", "i", "n", "/", "l", "s">> :> 420 @@ <<"/", "o", "p", "t", "/", "l", "s">> :> 424 @@ <<"l", "s">> :> 493 )

\* the directories os.Chdir succeeds on
Directories == {<<"/">>, <<"/", "h">>}

\* the paths the session writes to and reads from; DirPath names a directory,
\* on which every open fails
FilePaths == {<<"f">>, <<"g">>}
DirPath == <<"d">>

ExecPermission == 73
FilePermission == 420

\* mode & ExecPermission != 0: one of the three execute bits is set
HasExecBitOfOwner(mode) == (mode \div 64) % 2 = 1

HasExecBit(mode) ==
    \E b \in {1, 8, 64} : (ExecPermission \div b) % 2 = 1 /\ (mode \div b) % 2 = 1

\* filepath.Clean: the elements of the path without the empty ones and the
\* "." ones, a ".." taking the element before it away (or staying, in a
\* relative path that has none before it)
RECURSIVE CleanParts(_, _, _)
CleanParts(parts, rooted, acc) ==
    IF parts = <<>> THEN acc
    ELSE LET p == Head(parts) IN
         IF p = <<>> \/ p = <<".">> THEN CleanParts(Tail(parts), rooted, acc)
         ELSE IF p = <<".", ".">>
         THEN IF acc # <<>> /\ acc[Len(acc)] # <<".", ".">>
              THEN CleanParts(Tail(parts), rooted, SubSeq(acc, 1, Len(acc) - 1))
              ELSE IF rooted THEN CleanParts(Tail(parts), rooted, acc)
              ELSE CleanParts(Tail(parts), rooted, Append(acc, p))
         ELSE CleanParts(Tail(parts), rooted, Append(acc, p))

Clean(path) ==
    IF path = <<>> THEN <<".">>
    ELSE LET rooted == Head(path) = "/"
             body == Join(CleanParts(Split(path, "/"), rooted, <<>>), <<"/">>)
         IN IF rooted THEN <<"/">> \o body
            ELSE IF body = <<>> THEN <<".">> ELSE body

\* filepath.Join of a directory of the search path and a command name: the
\* empty elements are left out, the others joined with "/" and cleaned
JoinPath(dir, name) ==
    IF dir = <<>> /\ name = <<>> THEN <<>>
    ELSE IF dir = <<>> THEN Clean(name)
    ELSE IF name = <<>> THEN Clean(dir)
    ELSE Clean(dir \o <<"/">> \o name)

RECURSIVE isInPathFrom(_, _)
isInPathFrom(k, command) ==
    IF k > Len(PathDirs) THEN <<>>
    ELSE LET file == JoinPath(PathDirs[k], command) IN
         IF file \in DOMAIN FileModes /\ HasExecBit(FileModes[file])
         THEN file
         ELSE isInPathFrom(k + 1, command)

isInPath(command) == isInPathFrom(1, command)

builtinCommands == {<<"t", "y", "p", "e">>, <<"e", "c", "h", "o">>, <<"e", "x", "i", "t">>, <<"p", "w", "d">>, <<"c", "d">>, <<"h", "i", "s", "t", "o", "r", "y">>}

validateCommand(name) == name \in builtinCommands \/ isInPath(name) # <<>>

\* an absent file
NoFile == [exists |-> FALSE, data |-> <<>>]
FileOf(data) == [exists |-> TRUE, data |-> data]

\* os.WriteFile and os.OpenFile(O_APPEND|O_CREATE|O_WRONLY) succeed on the
\* paths of FilePaths and fail on every other path
CanOpen(path) == path \in FilePaths

\* writeToFile: the error of a failed open or write is dropped
writeToFileTruncates(fs, path, data, appendMode) ==
    IF ~CanOpen(path) THEN fs
    ELSE [fs EXCEPT ![path] = FileOf(data)]

writeToFile(fs, path, data, appendMode) ==
    IF ~CanOpen(path) THEN fs
    ELSE IF appendMode
         THEN [fs EXCEPT ![path] = FileOf(fs[path].data \o data)]
         ELSE [fs EXCEPT ![path] = FileOf(data)]

\* strconv.Atoi on the strings of the model: an optional sign and decimal digits
Digits == <<"0", "1", "2", "3", "4", "5", "6", "7", "8", "9">>
IsDigit(c) == \E d \in 1..Len(Digits) : Digits[d] = c
DigitValue(c) == (CHOOSE d \in 1..Len(Digits) : Digits[d] = c) - 1

RECURSIVE DecimalValue(_, _)
DecimalValue(s, acc) ==
    IF s = <<>> THEN acc ELSE DecimalValue(Tail(s), 10 * acc + DigitValue(Head(s)))

Atoi(s) ==
    LET signed == s # <<>> /\ Head(s) \in {"-", "+"}
        digits == IF signed THEN Tail(s) ELSE s
    IN IF digits = <<>> \/ \E k \in 1..Len(digits) : ~IsDigit(digits[k])
       THEN [ok |-> FALSE, v |-> 0]
       ELSE [ok |-> TRUE,
             v |-> IF signed /\ Head(s) = "-" THEN 0 - DecimalValue(digits, 0)
                   ELSE DecimalValue(digits, 0)]

\* the decimal text of a natural number (the %d verb)
RECURSIVE Itoa(_)
Itoa(n) == IF n < 10 THEN <<Digits[n + 1]>> ELSE Itoa(n \div 10) \o <<Digits[(n % 10) + 1]>>

\* strings.Split(content, "\n")
RECURSIVE SplitLinesFrom(_, _)
SplitLinesFrom(s, acc) ==
    LET breaks == {i \in 1..Len(s) : s[i] = "\n"} IN
    IF breaks = {} THEN Append(acc, s)
    ELSE LET i == CHOOSE b \in breaks : \A c \in breaks : b <= c
         IN SplitLinesFrom(SubSeq(s, i + 1, Len(s)), Append(acc, SubSeq(s, 1, i - 1)))

SplitLines(s) == SplitLinesFrom(s, <<>>)

\* the elements of a sequence of strings that are not empty, in order
RECURSIVE NonEmptyLines(_)
NonEmptyLines(ls) ==
    IF ls = <<>> THEN <<>>
    ELSE (IF Head(ls) = <<>> THEN <<>> ELSE <<Head(ls)>>) \o NonEmptyLines(Tail(ls))

\* the text of the error of a failed open or read
OpenError(path) ==
    IF path = DirPath THEN <<"o", "p", "e", "n", " ">> \o path \o <<":", " ", "i", "s", " ", "a", " ", "d", "i", "r", "e", "c", "t", "o", "r", "y">>
    ELSE <<"o", "p", "e", "n", " ">> \o path \o <<":", " ", "n", "o", " ", "s", "u", "c", "h", " ", "f", "i", "l", "e", " ", "o", "r", " ", "d", "i", "r", "e", "c", "t", "o", "r", "y">>

\* the external programs of the search path, by what they do once launched:
\* cat without arguments copies its input to its output until end of input,
\* cat with an argument names a file that does not exist and reports it on
\* its error output, ls writes a listing
Program(name, cargs) ==
    IF name = <<"c", "a", "t">> /\ cargs = <<>>
    THEN [reads |-> TRUE, out |-> <<>>, err |-> <<>>]
    ELSE IF name = <<"c", "a", "t">>
    THEN [reads |-> FALSE, out |-> <<>>,
          err |-> <<"c", "a", "t", ":", " ">> \o cargs[1] \o <<":", " ", "N", "o", " ", "s", "u", "c", "h", " ", "f", "i", "l", "e", " ", "o", "r", " ", "d", "i", "r", "e", "c", "t", "o", "r", "y", "\n">>]
    ELSE [reads |-> FALSE, out |-> <<"m", ".", "g", "o", "\n">>, err |-> <<>>]

----------------------------------------------------------------------------
(* The builtin handlers.  A handler works on the world w: the files, the   *)
(* session state of the Shell (history, historyAppendedCount), the working *)
(* directory, the process state (exited) and the process-wide os.Stdout    *)
(* and os.Stderr.  It returns the world it leaves and what it does with    *)
(* the streams it was given: out is the text it writes to its stdout       *)
(* parameter; reads tells whether it goes on copying its stdin to its      *)
(* output; mode tells what is written to the redirect target when the      *)
(* stage ends ("none", "stdout": the collected output, "stderr": errData). *)
(* The world also holds the environment variables HOME and HISTFILE.       *)

Handled(w, out) ==
    [w |-> w, out |-> out, reads |-> FALSE, mode |-> "none", errData |-> <<>>]

\* the file content handleExit and history -w write
HistoryContent(h) == Join(h, <<"\n">>) \o <<"\n">>

\* os.WriteFile of the whole history
WriteHistory(fs, path, h) ==
    IF CanOpen(path) THEN [fs EXCEPT ![path] = FileOf(HistoryContent(h))] ELSE fs

\* a handleExit that saves the history only when it ends the process
handleExitSavingWhenExiting(cargs, w) ==
    LET histfile == w.env.HISTFILE
        saved == IF histfile # <<>>
                 THEN [w EXCEPT !.files = WriteHistory(w.files, histfile, w.history)]
                 ELSE w
    IN IF Len(cargs) = 0
       THEN Handled([saved EXCEPT !.exited = [done |-> TRUE, code |-> 0]], <<>>)
       ELSE IF ~Atoi(cargs[1]).ok
       THEN Handled([w EXCEPT !.osStdout = @ \o <<"i", "n", "c", "o", "r", "r", "e", "c", "t", " ", "c", "o", "m", "m", "a", "n", "d", " ", "a", "r", "g", "u", "m", "e", "n", "t", "s">>], <<>>)
       ELSE Handled([saved EXCEPT !.exited = [done |-> TRUE, code |-> Atoi(cargs[1]).v]], <<>>)

\* a handleExit that ends the process without saving the history
handleExitWithoutSaving(cargs, w) ==
    IF Len(cargs) = 0
    THEN Handled([w EXCEPT !.exited = [done |-> TRUE, code |-> 0]], <<>>)
    ELSE IF ~Atoi(cargs[1]).ok
    THEN Handled([w EXCEPT !.osStdout = @ \o <<"i", "n", "c", "o", "r", "r", "e", "c", "t", " ", "c", "o", "m", "m", "a", "n", "d", " ", "a", "r", "g", "u", "m", "e", "n", "t", "s">>], <<>>)
    ELSE Handled([w EXCEPT !.exited = [done |-> TRUE, code |-> Atoi(cargs[1]).v]], <<>>)

handleExit(cargs, w) ==
    LET histfile == w.env.HISTFILE
        saved == IF histfile # <<>>
                 THEN [w EXCEPT !.files = WriteHistory(w.files, histfile, w.history)]
                 ELSE w
    IN IF Len(cargs) = 0
       THEN Handled([saved EXCEPT !.exited = [done |-> TRUE, code |-> 0]], <<>>)
       ELSE IF ~Atoi(cargs[1]).ok
       THEN Handled([saved EXCEPT !.osStdout = @ \o <<"i", "n", "c", "o", "r", "r", "e", "c", "t", " ", "c", "o", "m", "m", "a", "n", "d", " ", "a", "r", "g", "u", "m", "e", "n", "t", "s">>], <<>>)
       ELSE Handled([saved EXCEPT !.exited = [done |-> TRUE, code |-> Atoi(cargs[1]).v]], <<>>)

\* a handleEcho that sends the text to the target whatever stream is redirected
handleEchoToTarget(cmd, w) ==
    LET output == Join(cmd.Args, <<Space>>) \o <<"\n">> IN
    IF cmd.RedirectFile # <<>>
    THEN Handled([w EXCEPT !.files = writeToFile(@, cmd.RedirectFile, output, cmd.AppendMode)],
                 <<>>)
    ELSE Handled(w, output)

handleEcho(cmd, w) ==
    LET output == Join(cmd.Args, <<Space>>) \o <<"\n">> IN
    IF cmd.RedirectFile # <<>> /\ ~cmd.RedirectStderr
    THEN Handled([w EXCEPT !.files = writeToFile(@, cmd.RedirectFile, output, cmd.AppendMode)],
                 <<>>)
    ELSE IF cmd.RedirectFile # <<>>
    THEN Handled([w EXCEPT !.files = writeToFile(@, cmd.RedirectFile, <<>>, cmd.AppendMode)],
                 output)
    ELSE Handled(w, output)

handleType(cargs, w) ==
    IF Len(cargs) = 0 THEN Handled(w, <<"n", "o", " ", "c", "o", "m", "m", "a", "n", "d", " ", "f", "o", "u", "n", "d", "\n">>)
    ELSE LET commandName == cargs[1]
             filePath == isInPath(commandName)
         IN IF commandName \in builtinCommands
            THEN Handled(w, commandName \o <<" ", "i", "s", " ", "a", " ", "s", "h", "e", "l", "l", " ", "b", "u", "i", "l", "t", "i", "n", "\n">>)
            ELSE IF filePath # <<>>
            THEN Handled(w, commandName \o <<" ", "i", "s", " ">> \o filePath \o <<"\n">>)
            ELSE Handled(w, commandName \o <<":", " ", "n", "o", "t", " ", "f", "o", "u", "n", "d", "\n">>)

handlePwd(w) == Handled(w, w.cwd \o <<"\n">>)

\* a handleCd that takes every argument literally
handleCdOfLiteral(cargs, w) ==
    LET dir == IF Len(cargs) > 0 THEN cargs[1] ELSE w.env.HOME IN
    IF dir \in Directories
    THEN Handled([w EXCEPT !.cwd = dir], <<>>)
    ELSE Handled([w EXCEPT !.osStderr =
                      @ \o <<"c", "d", ":", " ">> \o dir \o <<":", " ", "N", "o", " ", "s", "u", "c", "h", " ", "f", "i", "l", "e", " ", "o", "r", " ", "d", "i", "r", "e", "c", "t", "o", "r", "y", "\n">>], <<>>)

handleCd(cargs, w) ==
    LET dir == IF Len(cargs) > 0 /\ cargs[1] # <<"~">> THEN cargs[1] ELSE w.env.HOME IN
    IF dir \in Directories
    THEN Handled([w EXCEPT !.cwd = dir], <<>>)
    ELSE Handled([w EXCEPT !.osStderr =
                      @ \o <<"c", "d", ":", " ">> \o dir \o <<":", " ", "N", "o", " ", "s", "u", "c", "h", " ", "f", "i", "l", "e", " ", "o", "r", " ", "d", "i", "r", "e", "c", "t", "o", "r", "y", "\n">>], <<>>)

\* the listing of the entries from index start (0-based) on
RECURSIVE HistoryListing(_, _)
HistoryListing(h, start) ==
    IF start >= Len(h) THEN <<>>
    ELSE <<" ", " ", " ", " ">> \o Itoa(start + 1) \o <<" ", " ">> \o h[start + 1] \o <<"\n">>
         \o HistoryListing(h, start + 1)

\* the history once history -r has read the content of a file: each line of
\* the content that is not empty is appended
HistoryAfterReadOfFileOnly(h, content) == NonEmptyLines(SplitLines(content))

HistoryAfterRead(h, content) == h \o NonEmptyLines(SplitLines(content))

\* the entries history -a writes: those after the cursor
NewLinesFromStart(w) == w.history

NewLines(w) == SubSeq(w.history, w.historyAppendedCount + 1, Len(w.history))

\* the index (0-based) of the first entry the listing shows
ListingStartOfAll(num, count) == 0

ListingStart(num, count) == IF num > 0 /\ num < count THEN count - num ELSE 0

handleHistory(cargs, w) ==
    IF Len(cargs) > 0 /\ cargs[1] = <<"-", "r">>
    THEN IF Len(cargs) < 2 THEN Handled(w, <<"h", "i", "s", "t", "o", "r", "y", ":", " ", "m", "i", "s", "s", "i", "n", "g", " ", "a", "r", "g", "u", "m", "e", "n", "t", "\n">>)
         ELSE IF ~(CanOpen(cargs[2]) /\ w.files[cargs[2]].exists)
         THEN Handled(w, <<"h", "i", "s", "t", "o", "r", "y", ":", " ">> \o OpenError(cargs[2]) \o <<"\n">>)
         ELSE Handled([w EXCEPT !.history = HistoryAfterRead(@, w.files[cargs[2]].data)], <<>>)
    ELSE IF Len(cargs) > 0 /\ cargs[1] = <<"-", "w">>
    THEN IF Len(cargs) < 2 THEN Handled(w, <<"h", "i", "s", "t", "o", "r", "y", ":", " ", "m", "i", "s", "s", "i", "n", "g", " ", "a", "r", "g", "u", "m", "e", "n", "t", "\n">>)
         ELSE IF ~CanOpen(cargs[2])
         THEN Handled(w, <<"h", "i", "s", "t", "o", "r", "y", ":", " ">> \o OpenError(cargs[2]) \o <<"\n">>)
         ELSE Handled([w EXCEPT !.files = WriteHistory(@, cargs[2], w.history)], <<>>)
    ELSE IF Len(cargs) > 0 /\ cargs[1] = <<"-", "a">>
    THEN IF Len(cargs) < 2 THEN Handled(w, <<"h", "i", "s", "t", "o", "r", "y", ":", " ", "m", "i", "s", "s", "i", "n", "g", " ", "a", "r", "g", "u", "m", "e", "n", "t", "\n">>)
         ELSE IF ~CanOpen(cargs[2])
         THEN Handled(w, <<"h", "i", "s", "t", "o", "r", "y", ":", " ">> \o OpenError(cargs[2]) \o <<"\n">>)
         ELSE LET newLines == NewLines(w)
                  opened == [w EXCEPT !.files[cargs[2]] = FileOf(@.data)]
              IN IF Len(newLines) > 0
                 THEN Handled([opened EXCEPT
                                  !.files[cargs[2]] =
                                      FileOf(@.data \o HistoryContent(newLines)),
                                  !.historyAppendedCount = Len(w.history)], <<>>)
                 ELSE Handled(opened, <<>>)
    ELSE IF Len(cargs) > 0 /\ ~Atoi(cargs[1]).ok
    THEN Handled(w, <<"h", "i", "s", "t", "o", "r", "y", ":", " ", "i", "n", "v", "a", "l", "i", "d", " ", "n", "u", "m", "b", "e", "r", "\n">>)
    ELSE LET num == IF Len(cargs) > 0 THEN Atoi(cargs[1]).v ELSE 0
             start == ListingStart(num, Len(w.history))
         IN Handled(w, HistoryListing(w.history, start))

\* handleExternal: the child gets the stage's stdin; without a redirection
\* its output is the stage's stdout and its error output os.Stderr; with a
\* redirection of stdout its output is collected and written to the target
\* when it has ended; with a redirection of stderr its error output is
\* collected and written to the target when it has ended
handleExternal(cmd, w) ==
    LET prog == Program(cmd.Name, cmd.Args) IN
    IF cmd.RedirectFile # <<>> /\ cmd.RedirectStderr
    THEN [w |-> w, out |-> prog.out, reads |-> prog.reads, mode |-> "stderr",
          errData |-> prog.err]
    ELSE IF cmd.RedirectFile # <<>>
    THEN [w |-> [w EXCEPT !.osStderr = @ \o prog.err], out |-> prog.out,
          reads |-> prog.reads, mode |-> "stdout", errData |-> <<>>]
    ELSE [w |-> [w EXCEPT !.osStderr = @ \o prog.err], out |-> prog.out,
          reads |-> prog.reads, mode |-> "none", errData |-> <<>>]

\* the message of runCommand for a name that is neither a builtin nor on the
\* search path: fmt.Printf writes it to os.Stdout
NotFoundMessage(name) == name \o <<":", " ", "c", "o", "m", "m", "a", "n", "d", " ", "n", "o", "t", " ", "f", "o", "u", "n", "d", "\n">>

\* runCommand on a stage without Next, after the test of the empty name: the
\* validation and the switch over the name
Dispatch(cmd, w) ==
    IF ~validateCommand(cmd.Name)
    THEN Handled([w EXCEPT !.osStdout = @ \o NotFoundMessage(cmd.Name)], <<>>)
    ELSE IF cmd.Name = <<"e", "x", "i", "t">> THEN handleExit(cmd.Args, w)
    ELSE IF cmd.Name = <<"e", "c", "h", "o">> THEN handleEcho(cmd, w)
    ELSE IF cmd.Name = <<"t", "y", "p", "e">> THEN handleType(cmd.Args, w)
    ELSE IF cmd.Name = <<"p", "w", "d">> THEN handlePwd(w)
    ELSE IF cmd.Name = <<"c", "d">> THEN handleCd(cmd.Args, w)
    ELSE IF cmd.Name = <<"h", "i", "s", "t", "o", "r", "y">> THEN handleHistory(cmd.Args, w)
    ELSE handleExternal(cmd, w)

----------------------------------------------------------------------------
(* The lines the parser is applied to.                                     *)

SeqsUpTo(S, n) == UNION {[1..k -> S] : k \in 0..n}

LineChars == {"a", Space, Tab, SingleQuote, DoubleQuote, Backslash, "|", ">"}
CharLines == SeqsUpTo(LineChars, MaxLineLen)

Words == {<<"a">>, <<"b">>}
TokenLines ==
    {Join(t, <<Space>>) : t \in SeqsUpTo(Words \cup Operators, MaxTokens)}
PipeLines ==
    {Join(t, <<Space>>) : t \in SeqsUpTo(Words \cup {Pipe}, MaxPipeTokens)}

\* lines of adjacent quoted and unquoted runs, and of empty quoted runs
QuoteLines ==
    {<<DoubleQuote, "a", DoubleQuote, DoubleQuote, "b", DoubleQuote>>,
     <<SingleQuote, "a", SingleQuote, DoubleQuote, "b", DoubleQuote>>,
     <<"a", DoubleQuote, "b", DoubleQuote, SingleQuote, "a", SingleQuote>>,
     <<"a", Space, DoubleQuote, DoubleQuote, Space, "b">>,
     <<"a", Space, SingleQuote, SingleQuote, Space, DoubleQuote, DoubleQuote>>,
     <<"a", Space, DoubleQuote, Backslash, DoubleQuote, SingleQuote, DoubleQuote>>,
     <<"a", Space, SingleQuote, "a", Backslash, SingleQuote, "b">>}

\* lines of words, redirection operators and pipe tokens, long enough for a
\* redirection with its operand before a pipe token and for a second
\* redirection after the first
RedirectPipeLines ==
    {Join(t, <<Space>>) : t \in SeqsUpTo({<<"a">>, Gt, Gt2Gt, Pipe}, MaxPipeTokens)}

\* spellings of tokens: a word, a pipe token, operator tokens spelled with
\* quotes or a backslash, and tokens that hold a space, a quote character or
\* a backslash
TokenSpellings ==
    {<<"a">>, Pipe, <<DoubleQuote, ">", DoubleQuote>>, <<SingleQuote, "|", SingleQuote>>,
     <<Backslash, ">">>, <<DoubleQuote, "x", Space, "y", DoubleQuote>>,
     <<"a", Backslash, DoubleQuote>>, <<Backslash, Backslash, "a">>}

SpelledLines ==
    {Join(t, <<Space>>) : t \in SeqsUpTo(TokenSpellings, MaxSpelledTokens)}

\* lines of four tokens with a spelled token after a pipe token
SpelledPipeLines ==
    {<<"a", Space, "|", Space, "e", "c", "h", "o", Space>> \o t : t \in TokenSpellings}
    \cup {<<"e", "c", "h", "o", Space>> \o t \o <<Space, "x">> : t \in TokenSpellings}

Lines ==
    CharLines \cup TokenLines \cup PipeLines \cup QuoteLines
    \cup RedirectPipeLines \cup SpelledLines \cup SpelledPipeLines

----------------------------------------------------------------------------
(* The parser as a state machine: parseInput applied to one line.          *)

\* the executor and the session at rest
ExecIdle ==
    /\ stages = <<EmptyCommand>>
    /\ callIn = [data |-> <<>>, eof |-> FALSE]
    /\ callOut = "stdout"
    /\ main = [pc |-> "idle", depth |-> 1]
    /\ task = <<[pc |-> "none", pend |-> <<>>, reads |-> FALSE, mode |-> "none",
                 held |-> <<>>, eof |-> FALSE]>>
    /\ pipe = <<[buf |-> <<>>, wclosed |-> FALSE]>>
    /\ sink = [stdout |-> <<>>, stderr |-> <<>>, buf |-> <<>>]
    /\ files = [p \in FilePaths |-> NoFile]
    /\ history = <<>>
    /\ historyAppendedCount = 0
    /\ cwd = <<"/">>
    /\ exited = [done |-> FALSE, code |-> 0]
    /\ env = [HOME |-> <<>>, HISTFILE |-> <<>>, PATH |-> DefaultPath]
    /\ nlines = 0
    /\ wrote = << <<>> >>
    /\ readBy = << <<>> >>
    /\ before = [files |-> files, sink |-> sink, input |-> callIn.data]

\* the parser at rest
ParseIdle ==
    /\ line = <<>>
    /\ input = <<>>
    /\ pc = "idle"
    /\ st = QuotedInit
    /\ args = <<>>
    /\ result = Returned(EmptyCommand)

InitParse ==
    /\ ExecIdle
    /\ line \in Lines
    /\ input = <<>>
    /\ pc = "parseInput"
    /\ st = QuotedInit
    /\ args = <<>>
    /\ result = Returned(EmptyCommand)

\* parseInput up to the choice of the tokenizer
ParseInputStart ==
    /\ pc = "parseInput"
    /\ input' = TrimSpace(line)
    /\ IF Len(input') = 0
       THEN /\ pc' = "done"
            /\ result' = Returned(EmptyCommand)
            /\ UNCHANGED <<st, args>>
       ELSE IF UsesQuotedArgs(input')
       THEN /\ pc' = "parseQuotedArgs"
            /\ st' = QuotedInit
            /\ UNCHANGED <<args, result>>
       ELSE /\ pc' = "scan"
            /\ args' = Fields(input')
            /\ UNCHANGED <<st, result>>
    /\ UNCHANGED line
    /\ UNCHANGED execVars

\* one iteration of the loop of parseQuotedArgs
ParseQuotedArgsStep ==
    /\ pc = "parseQuotedArgs"
    /\ st.i <= Len(input)
    /\ st' = QuotedStep(input, st)
    /\ UNCHANGED <<line, input, pc, args, result>>
    /\ UNCHANGED execVars

\* the end of parseQuotedArgs
ParseQuotedArgsReturn ==
    /\ pc = "parseQuotedArgs"
    /\ st.i > Len(input)
    /\ args' = QuotedEnd(st)
    /\ pc' = "scan"
    /\ UNCHANGED <<line, input, st, result>>
    /\ UNCHANGED execVars

\* an operator scan that takes every token of a line with quotes literally
ParseInputScanLiteralWhenQuoted ==
    /\ pc = "scan"
    /\ result' = IF ~UsesQuotedArgs(input) THEN ScanOperators(args)
                 ELSE IF args = <<>> THEN Panicked
                 ELSE Returned(Command(TrimSpace(args[1]), Tail(args), <<>>, FALSE, FALSE, <<>>))
    /\ pc' = "done"
    /\ UNCHANGED <<line, input, st, args>>
    /\ UNCHANGED execVars

\* the operator scan of parseInput and its return
ParseInputScan ==
    /\ pc = "scan"
    /\ result' = ScanOperators(args)
    /\ pc' = "done"
    /\ UNCHANGED <<line, input, st, args>>
    /\ UNCHANGED execVars

NextParse ==
    \/ ParseInputStart
    \/ ParseQuotedArgsStep
    \/ ParseQuotedArgsReturn
    \/ ParseInputScan

SpecParse == InitParse /\ [][NextParse]_vars

\* the state machine and the recursive operator compute the same result
ParseAgrees == pc = "done" => result = parseInput(line)

----------------------------------------------------------------------------
(* The executor as a state machine.  runCommand on a chain of N stages     *)
(* runs stage i < N in a goroutine of its own and stage N on the caller's  *)
(* flow of control.  task[i] is the state of the run of stage i:           *)
(*   pc     "none" (not started), "ready" (runCommand called on the stage),*)
(*          "run" (the handler is writing or copying), "returned"          *)
(*          (runCommand has returned), "closed" (the goroutine has closed  *)
(*          the write end of its pipe);                                    *)
(*   pend   the bytes the stage has still to write to its stdout;          *)
(*   reads  the stage goes on reading its stdin;                           *)
(*   mode   what is written to the redirect target when the stage ends;    *)
(*   held   the bytes collected for the redirect target;                   *)
(*   eof    the stage has read the end of its input.                       *)
(* pipe[i] is the pipe between stage i and stage i+1.                      *)

IdleTask ==
    [pc |-> "none", pend |-> <<>>, reads |-> FALSE, mode |-> "none",
     held |-> <<>>, eof |-> FALSE]

EmptyPipe == [buf |-> <<>>, wclosed |-> FALSE]

NotExited == [done |-> FALSE, code |-> 0]

World ==
    [files |-> files, history |-> history,
     historyAppendedCount |-> historyAppendedCount, cwd |-> cwd,
     exited |-> exited, osStdout |-> sink.stdout, osStderr |-> sink.stderr,
     env |-> env]

HasNext(i) == stages[i].Next # <<>>

\* the reader of stage i: the caller's reader for the first stage, the read
\* end of the pipe before it otherwise
StdinData(i) == IF i = 1 THEN callIn.data ELSE pipe[i - 1].buf
StdinEnded(i) == IF i = 1 THEN callIn.eof ELSE pipe[i - 1].wclosed

\* the files once the stage has ended: the collected bytes go to the target
AtEnd(fs, cmd, t) ==
    IF t.mode = "none" THEN fs
    ELSE writeToFile(fs, cmd.RedirectFile, t.held, cmd.AppendMode)

Min(a, b) == IF a < b THEN a ELSE b

\* the writer stage i is given as stdout: the write end of pipe i in the
\* goroutine of a stage with a Next, the writer of the caller for the last
StageStdoutOfCaller(i) == callOut

StageStdout(i) == IF HasNext(i) THEN "pipe" ELSE callOut

\* the caller's flow of control enters runCommand on the chain from stage
\* main.depth on: an empty name returns nil; a stage with a Next gets a pipe
\* and a goroutine and the call recurs on the Next; the last stage is run
\* on the caller's flow of control
MainCall ==
    /\ ~exited.done
    /\ main.pc = "call"
    /\ LET d == main.depth IN
       IF stages[d].Name = <<>>
       THEN /\ main' = [main EXCEPT !.pc = "returned"]
            /\ UNCHANGED task
       ELSE IF HasNext(d)
       THEN /\ task' = [task EXCEPT ![d].pc = "ready"]
            /\ main' = [main EXCEPT !.depth = d + 1]
       ELSE /\ task' = [task EXCEPT ![d].pc = "ready"]
            /\ main' = [main EXCEPT !.pc = "wait"]
    /\ UNCHANGED <<stages, callIn, callOut, pipe, sink, files, before, history,
                   historyAppendedCount, cwd, exited, env, wrote, readBy, nlines>>
    /\ UNCHANGED parseVars

MainReturnAfterJoin ==
    /\ ~exited.done
    /\ main.pc = "wait"
    /\ task[main.depth].pc = "returned"
    /\ \A i \in 1..(Len(stages) - 1) : task[i].pc = "closed"
    /\ main' = [main EXCEPT !.pc = "returned"]
    /\ UNCHANGED <<stages, callIn, callOut, task, pipe, sink, files, before,
                   history, historyAppendedCount, cwd, exited, env, wrote, readBy,
                   nlines>>
    /\ UNCHANGED parseVars

\* the last stage has returned: so does the top-level call, with nil
MainReturn ==
    /\ ~exited.done
    /\ main.pc = "wait"
    /\ task[main.depth].pc = "returned"
    /\ main' = [main EXCEPT !.pc = "returned"]
    /\ UNCHANGED <<stages, callIn, callOut, task, pipe, sink, files, before,
                   history, historyAppendedCount, cwd, exited, env, wrote, readBy,
                   nlines>>
    /\ UNCHANGED parseVars

StartStageInTurn(i) ==
    /\ ~exited.done
    /\ task[i].pc = "ready"
    /\ \A j \in 1..(i - 1) : task[j].pc \in {"returned", "closed"}
    /\ \E r \in {Dispatch(stages[i], World)} :
       LET collect == r.mode = "stdout"
           t == [pc |-> "run", pend |-> IF collect THEN <<>> ELSE r.out,
                 reads |-> r.reads, mode |-> r.mode,
                 held |-> IF collect THEN r.out ELSE r.errData, eof |-> FALSE]
           ends == ~t.reads /\ t.pend = <<>>
       IN /\ task' = [task EXCEPT ![i] = IF ends THEN [t EXCEPT !.pc = "returned"] ELSE t]
          /\ files' = IF ends THEN AtEnd(r.w.files, stages[i], t) ELSE r.w.files
          /\ history' = r.w.history
          /\ historyAppendedCount' = r.w.historyAppendedCount
          /\ cwd' = r.w.cwd
          /\ exited' = r.w.exited
          /\ sink' = [sink EXCEPT !.stdout = r.w.osStdout, !.stderr = r.w.osStderr]
    /\ UNCHANGED <<stages, callIn, callOut, main, pipe, before, env, wrote, readBy,
                   nlines>>
    /\ UNCHANGED parseVars

\* runCommand on stage i: validation, dispatch, and the handler up to its
\* first write to stdout or read of stdin
StartStage(i) ==
    /\ ~exited.done
    /\ task[i].pc = "ready"
    /\ \E r \in {Dispatch(stages[i], World)} :
       LET collect == r.mode = "stdout"
           t == [pc |-> "run", pend |-> IF collect THEN <<>> ELSE r.out,
                 reads |-> r.reads, mode |-> r.mode,
                 held |-> IF collect THEN r.out ELSE r.errData, eof |-> FALSE]
           ends == ~t.reads /\ t.pend = <<>>
       IN /\ task' = [task EXCEPT ![i] = IF ends THEN [t EXCEPT !.pc = "returned"] ELSE t]
          /\ files' = IF ends THEN AtEnd(r.w.files, stages[i], t) ELSE r.w.files
          /\ history' = r.w.history
          /\ historyAppendedCount' = r.w.historyAppendedCount
          /\ cwd' = r.w.cwd
          /\ exited' = r.w.exited
          /\ sink' = [sink EXCEPT !.stdout = r.w.osStdout, !.stderr = r.w.osStderr]
    /\ UNCHANGED <<stages, callIn, callOut, main, pipe, before, env, wrote, readBy,
                   nlines>>
    /\ UNCHANGED parseVars

\* a copying stage reads what its stdin holds
ReadStage(i) ==
    /\ ~exited.done
    /\ task[i].pc = "run"
    /\ task[i].reads
    /\ task[i].pend = <<>>
    /\ StdinData(i) # <<>>
    /\ LET data == StdinData(i) IN
       /\ task' = [task EXCEPT ![i] =
                      IF @.mode = "stdout" THEN [@ EXCEPT !.held = @ \o data]
                      ELSE [@ EXCEPT !.pend = data]]
       /\ readBy' = [readBy EXCEPT ![i] = @ \o data]
    /\ IF i = 1
       THEN /\ callIn' = [callIn EXCEPT !.data = <<>>]
            /\ UNCHANGED pipe
       ELSE /\ pipe' = [pipe EXCEPT ![i - 1].buf = <<>>]
            /\ UNCHANGED callIn
    /\ UNCHANGED <<stages, callOut, main, sink, files, before, history,
                   historyAppendedCount, cwd, exited, env, wrote, nlines>>
    /\ UNCHANGED parseVars

\* a copying stage reads the end of its input and ends
EndOfInput(i) ==
    /\ ~exited.done
    /\ task[i].pc = "run"
    /\ task[i].reads
    /\ task[i].pend = <<>>
    /\ StdinData(i) = <<>>
    /\ StdinEnded(i)
    /\ task' = [task EXCEPT ![i] = [@ EXCEPT !.pc = "returned", !.reads = FALSE,
                                            !.eof = TRUE]]
    /\ files' = AtEnd(files, stages[i], task[i])
    /\ UNCHANGED <<stages, callIn, callOut, main, pipe, sink, before, history,
                   historyAppendedCount, cwd, exited, env, wrote, readBy, nlines>>
    /\ UNCHANGED parseVars

\* a stage writes to its stdout: as many bytes as the pipe has room for, at
\* least one, when its stdout is a pipe; all of them when it is the stream
\* of the caller.  The stage ends with its last byte unless it goes on reading
WriteStage(i) ==
    /\ ~exited.done
    /\ task[i].pc = "run"
    /\ task[i].pend # <<>>
    /\ StageStdout(i) = "pipe" => Len(pipe[i].buf) < PipeCap
    /\ LET k == IF StageStdout(i) = "pipe"
                THEN Min(PipeCap - Len(pipe[i].buf), Len(task[i].pend))
                ELSE Len(task[i].pend)
           sent == SubSeq(task[i].pend, 1, k)
           rest == SubSeq(task[i].pend, k + 1, Len(task[i].pend))
           ends == rest = <<>> /\ ~task[i].reads
       IN /\ IF StageStdout(i) = "pipe"
             THEN /\ pipe' = [pipe EXCEPT ![i].buf = @ \o sent]
                  /\ UNCHANGED sink
             ELSE /\ sink' = [sink EXCEPT ![StageStdout(i)] = @ \o sent]
                  /\ UNCHANGED pipe
          /\ task' = [task EXCEPT ![i] =
                         [@ EXCEPT !.pend = rest,
                                   !.pc = IF ends THEN "returned" ELSE "run"]]
          /\ files' = IF ends THEN AtEnd(files, stages[i], task[i]) ELSE files
          /\ wrote' = [wrote EXCEPT ![i] = @ \o sent]
    /\ UNCHANGED <<stages, callIn, callOut, main, before, history,
                   historyAppendedCount, cwd, exited, env, readBy, nlines>>
    /\ UNCHANGED parseVars

\* the goroutine of stage i closes the write end of its pipe after
\* runCommand has returned
ClosesAfterReturn(i) == task[i].pc = "returned"

CloseStage(i) ==
    /\ ~exited.done
    /\ HasNext(i)
    /\ ClosesAfterReturn(i)
    /\ ~pipe[i].wclosed
    /\ pipe' = [pipe EXCEPT ![i].wclosed = TRUE]
    /\ task' = [task EXCEPT ![i].pc = IF @ = "returned" THEN "closed" ELSE @]
    /\ UNCHANGED <<stages, callIn, callOut, main, sink, files, before, history,
                   historyAppendedCount, cwd, exited, env, wrote, readBy, nlines>>
    /\ UNCHANGED parseVars

Stage(i) ==
    \/ StartStage(i)
    \/ ReadStage(i)
    \/ EndOfInput(i)
    \/ WriteStage(i)
    \/ CloseStage(i)

----------------------------------------------------------------------------
(* One call of runCommand on a chain, with a reader and a writer of the    *)
(* caller (as TestShell_runCommand_Pipes does).                            *)

Cmd(name, cargs) == Command(name, cargs, <<>>, FALSE, FALSE, <<>>)
Redirected(name, cargs, file, toStderr, appendMode) ==
    Command(name, cargs, file, toStderr, appendMode, <<>>)

\* the chain of the Commands of a sequence, linked by Next
RECURSIVE Link(_)
Link(cs) ==
    IF Len(cs) = 1 THEN cs[1]
    ELSE [cs[1] EXCEPT !.Next = <<Link(Tail(cs))>>]

\* the stages that occur at every place of a chain
CoreStages ==
    { Cmd(<<"e", "c", "h", "o">>, <<<<"h", "e", "l", "l", "o">>>>), Cmd(<<"c", "a", "t">>, <<>>), Cmd(<<"n", "o", "s", "u", "c", "h">>, <<>>) }

\* the stages that occur alone, and before or after one core stage
EdgeStages ==
    { Redirected(<<"e", "c", "h", "o">>, <<<<"x">>>>, <<"f">>, FALSE, FALSE),
      Redirected(<<"e", "c", "h", "o">>, <<<<"y">>>>, <<"f">>, FALSE, TRUE),
      Redirected(<<"e", "c", "h", "o">>, <<<<"x">>, <<"y">>>>, <<"f">>, TRUE, FALSE),
      Redirected(<<"e", "c", "h", "o">>, <<<<"x">>>>, <<"f">>, TRUE, TRUE),
      Redirected(<<"e", "c", "h", "o">>, <<<<"x">>>>, DirPath, FALSE, FALSE),
      Cmd(<<"p", "w", "d">>, <<>>),
      Redirected(<<"p", "w", "d">>, <<>>, <<"f">>, FALSE, FALSE),
      Cmd(<<"t", "y", "p", "e">>, <<<<"c", "a", "t">>>>),
      Redirected(<<"t", "y", "p", "e">>, <<<<"c", "d">>>>, <<"f">>, FALSE, TRUE),
      Cmd(<<"c", "d">>, <<>>),
      Cmd(<<"c", "d">>, <<<<"/", "n", "o">>>>),
      Cmd(<<"h", "i", "s", "t", "o", "r", "y">>, <<>>),
      Redirected(<<"h", "i", "s", "t", "o", "r", "y">>, <<<<"1">>>>, <<"f">>, FALSE, FALSE),
      Cmd(<<"h", "i", "s", "t", "o", "r", "y">>, <<<<"-", "a">>, <<"g">>>>),
      Cmd(<<"e", "x", "i", "t">>, <<>>),
      Cmd(<<"e", "x", "i", "t">>, <<<<"x">>>>),
      Cmd(<<"l", "s">>, <<>>),
      Redirected(<<"l", "s">>, <<>>, <<"f">>, FALSE, FALSE),
      Redirected(<<"l", "s">>, <<>>, <<"f">>, FALSE, TRUE),
      Redirected(<<"c", "a", "t">>, <<>>, <<"f">>, FALSE, TRUE),
      Redirected(<<"c", "a", "t">>, <<<<"m">>>>, <<"f">>, TRUE, FALSE),
      Redirected(<<"c", "a", "t">>, <<<<"m">>>>, <<"f">>, TRUE, TRUE),
      Cmd(<<>>, <<>>) }

\* chains of two stages that both touch the state of the session: the
\* working directory, the history, the append cursor, the process itself
SessionChains ==
    { Link(<<Cmd(<<"c", "d">>, <<<<"/", "h">>>>), Cmd(<<"p", "w", "d">>, <<>>)>>),
      Link(<<Cmd(<<"h", "i", "s", "t", "o", "r", "y">>, <<<<"-", "r">>, <<"f">>>>), Cmd(<<"h", "i", "s", "t", "o", "r", "y">>, <<>>)>>),
      Link(<<Cmd(<<"h", "i", "s", "t", "o", "r", "y">>, <<<<"-", "a">>, <<"g">>>>), Cmd(<<"h", "i", "s", "t", "o", "r", "y">>, <<<<"-", "a">>, <<"g">>>>)>>),
      Link(<<Cmd(<<"e", "x", "i", "t">>, <<>>), Cmd(<<"l", "s">>, <<>>)>>) }

PipeChains ==
    {Link(cs) : cs \in UNION {[1..n -> CoreStages] : n \in 1..MaxStages}}
    \cup {Link(<<e>>) : e \in EdgeStages}
    \cup {Link(<<c, e>>) : c \in CoreStages, e \in EdgeStages}
    \cup {Link(<<e, c>>) : c \in CoreStages, e \in EdgeStages}
    \cup SessionChains

\* the readers of the caller: an empty input, an input of one line, and an
\* input that never ends (a terminal nobody types on)
CallerInputs ==
    { [data |-> <<>>, eof |-> TRUE], [data |-> <<"i", "n", "\n">>, eof |-> TRUE],
      [data |-> <<>>, eof |-> FALSE] }

NoFiles == [p \in FilePaths |-> NoFile]
\* the stage names the file f: as its redirect target or as an argument
UsesFile(cmd) ==
    \/ cmd.RedirectFile # <<>>
    \/ \E k \in 1..Len(cmd.Args) : cmd.Args[k] = <<"f">>
InitialFiles == {NoFiles, [NoFiles EXCEPT ![<<"f">>] = FileOf(<<"o", "l", "d", "\n">>)]}

InitPipe ==
    /\ \E c \in PipeChains : stages = Chain(c)
    /\ callIn \in IF stages[1].Name = <<"c", "a", "t">> THEN CallerInputs
                  ELSE {[data |-> <<>>, eof |-> TRUE]}
    /\ callOut = "buf"
    /\ main = [pc |-> "call", depth |-> 1]
    /\ task = [i \in 1..Len(stages) |-> IdleTask]
    /\ pipe = [i \in 1..Len(stages) |-> EmptyPipe]
    /\ sink = [stdout |-> <<>>, stderr |-> <<>>, buf |-> <<>>]
    /\ files \in IF \E i \in 1..Len(stages) : UsesFile(stages[i])
                 THEN InitialFiles ELSE {NoFiles}
    /\ history = << <<"l", "s">>, <<"p", "w", "d">> >>
    /\ historyAppendedCount = 0
    /\ cwd = <<"/">>
    /\ exited = NotExited
    /\ env = [HOME |-> <<"/", "h">>, HISTFILE |-> <<>>, PATH |-> DefaultPath]
    /\ wrote = [i \in 1..Len(stages) |-> <<>>]
    /\ readBy = [i \in 1..Len(stages) |-> <<>>]
    /\ nlines = 0
    /\ before = [files |-> files, sink |-> sink, input |-> callIn.data]
    /\ ParseIdle

NextPipe ==
    \/ MainCall
    \/ MainReturn
    \/ \E i \in 1..Len(stages) : StartStage(i)
    \/ \E i \in 1..Len(stages) : ReadStage(i)
    \/ \E i \in 1..Len(stages) : EndOfInput(i)
    \/ \E i \in 1..Len(stages) : WriteStage(i)
    \/ \E i \in 1..Len(stages) : CloseStage(i)

SpecPipe == InitPipe /\ [][NextPipe]_vars

\* every goroutine and the caller's flow of control get to run
SpecPipeFair ==
    /\ SpecPipe
    /\ WF_vars(MainCall \/ MainReturn)
    /\ \A i \in 1..MaxStages : WF_vars(i <= Len(stages) /\ Stage(i))

----------------------------------------------------------------------------
(* The session: NewShell, then the loop of Run, which reads a line,        *)
(* appends it to the history and executes it on os.Stdin and os.Stdout.    *)
(* The lines of the model leave no goroutine behind when the top-level     *)
(* call returns, so the state of the tasks is that of the last line.       *)

SessionLines ==
    { <<"e", "c", "h", "o", " ", "x", " ", ">", " ", "f">>, <<"e", "c", "h", "o", " ", "y", " ", ">", ">", " ", "f">>, <<"e", "c", "h", "o", " ", "x", " ", "y", " ", "2", ">", " ", "f">>, <<"e", "c", "h", "o", " ", "y", " ", "2", ">", ">", " ", "f">>,
      <<"e", "c", "h", "o", " ", "x">>, <<"e", "c", "h", "o", " ", "x", " ", ">", " ", "d">>, <<"p", "w", "d", " ", ">", " ", "f">>, <<"h", "i", "s", "t", "o", "r", "y">>, <<"c", "d", " ", "/", "h">>,
      <<"n", "o", "s", "u", "c", "h">>, <<"l", "s", " ", ">", ">", " ", "f">>, <<"e", "c", "h", "o", " ", "x", " ", "|", " ", "c", "a", "t">>, <<"e", "x", "i", "t">> }

\* the terminal as the reader of a command: nothing is typed while it runs
Terminal == [data |-> <<>>, eof |-> FALSE]

\* the history NewShell loads from the file HISTFILE names
LoadedHistory(fs, e) ==
    IF e.HISTFILE # <<>> /\ CanOpen(e.HISTFILE) /\ fs[e.HISTFILE].exists
    THEN NonEmptyLines(SplitLines(fs[e.HISTFILE].data))
    ELSE <<>>

InitSession ==
    /\ env \in {[HOME |-> <<"/", "h">>, HISTFILE |-> hf, PATH |-> DefaultPath] : hf \in {<<>>, <<"g">>}}
    /\ files \in {[fs EXCEPT ![<<"g">>] = IF env.HISTFILE = <<>> THEN NoFile
                                         ELSE FileOf(<<"l", "s", "\n">>)] : fs \in InitialFiles}
    /\ history = LoadedHistory(files, env)
    /\ historyAppendedCount = 0
    /\ cwd = <<"/">>
    /\ exited = NotExited
    /\ stages = <<EmptyCommand>>
    /\ callIn = Terminal
    /\ callOut = "stdout"
    /\ main = [pc |-> "idle", depth |-> 1]
    /\ task = <<IdleTask>>
    /\ pipe = <<EmptyPipe>>
    /\ sink = [stdout |-> <<>>, stderr |-> <<>>, buf |-> <<>>]
    /\ wrote = << <<>> >>
    /\ readBy = << <<>> >>
    /\ nlines = 0
    /\ before = [files |-> files, sink |-> sink, input |-> callIn.data]
    /\ ParseIdle

\* the history once Run has accepted a line
AcceptedUnlessEmpty(h, l) == IF l = <<>> THEN h ELSE Append(h, l)

Accepted(h, l) == Append(h, l)

\* one turn of the loop of Run: Readline returns a line, the line is appended
\* to the history and handed to executeCommand, which parses it and calls
\* runCommand; a panic of the parser ends the process
ReadLine(l) ==
    /\ ~exited.done
    /\ main.pc \in {"idle", "returned"}
    /\ nlines < MaxLines
    /\ nlines' = nlines + 1
    /\ line' = l
    /\ history' = Accepted(history, l)
    /\ LET r == parseInput(l) IN
       IF ~r.ok
       THEN /\ exited' = [done |-> TRUE, code |-> 2]
            /\ UNCHANGED <<stages, main, task, pipe, wrote, readBy>>
       ELSE /\ stages' = Chain(r.cmd)
            /\ main' = [pc |-> "call", depth |-> 1]
            /\ task' = [i \in 1..Len(stages') |-> IdleTask]
            /\ pipe' = [i \in 1..Len(stages') |-> EmptyPipe]
            /\ wrote' = [i \in 1..Len(stages') |-> <<>>]
            /\ readBy' = [i \in 1..Len(stages') |-> <<>>]
            /\ UNCHANGED exited
    /\ before' = [files |-> files, sink |-> sink, input |-> callIn.data]
    /\ UNCHANGED <<callIn, callOut, sink, files, historyAppendedCount, cwd, env>>
    /\ UNCHANGED <<input, pc, st, args, result>>

\* Readline fails (end of input): Run rings the bell and returns, main ends
ReadEnd ==
    /\ ~exited.done
    /\ main.pc \in {"idle", "returned"}
    /\ exited' = [done |-> TRUE, code |-> 0]
    /\ sink' = [sink EXCEPT !.stdout = @ \o <<"BEL", "\n">>]
    /\ UNCHANGED <<stages, callIn, callOut, main, task, pipe, files, before,
                   history, historyAppendedCount, cwd, env, wrote, readBy, nlines>>
    /\ UNCHANGED parseVars

NextSession ==
    \/ \E l \in SessionLines : ReadLine(l)
    \/ ReadEnd
    \/ MainCall
    \/ MainReturn
    \/ \E i \in 1..Len(stages) : StartStage(i)
    \/ \E i \in 1..Len(stages) : ReadStage(i)
    \/ \E i \in 1..Len(stages) : EndOfInput(i)
    \/ \E i \in 1..Len(stages) : WriteStage(i)
    \/ \E i \in 1..Len(stages) : CloseStage(i)

SpecSession == InitSession /\ [][NextSession]_vars

----------------------------------------------------------------------------
(* The loop of Run on lines of one stage that start no process: the whole  *)
(* turn (the line is appended to the history, parsed, and its builtin      *)
(* handler runs) happens on the caller's flow of control.                  *)

\* the number of lines such a session reads
MaxTurns == 3

\* the lines of a session that sets its directory and ends
BuiltinLines ==
    { <<>>, <<"a">>, <<"h", "i", "s", "t", "o", "r", "y">>, <<"e", "x", "i", "t">>, <<"e", "x", "i", "t", " ", "3">>, <<"e", "x", "i", "t", " ", "x">>,
      <<"c", "d">>, <<"c", "d", " ", "~">>, <<"c", "d", " ", "/", "h">>, <<"c", "d", " ", "/", "x">> }

\* the lines of a session that lists, saves and loads its history
HistoryLines ==
    { <<>>, <<"a">>, <<"h", "i", "s", "t", "o", "r", "y">>, <<"h", "i", "s", "t", "o", "r", "y", " ", "1">>, <<"h", "i", "s", "t", "o", "r", "y", " ", "2">>, <<"h", "i", "s", "t", "o", "r", "y", " ", "0">>,
      <<"h", "i", "s", "t", "o", "r", "y", " ", "-", "1">>, <<"h", "i", "s", "t", "o", "r", "y", " ", "-", "a", " ", "f">>, <<"h", "i", "s", "t", "o", "r", "y", " ", "-", "w", " ", "f">>, <<"h", "i", "s", "t", "o", "r", "y", " ", "-", "r", " ", "f">>,
      <<"h", "i", "s", "t", "o", "r", "y", " ", "-", "a", " ", "d">>, <<"h", "i", "s", "t", "o", "r", "y", " ", "-", "w", " ", "d">> }

\* the session NewShell leaves, for the values of HOME, HISTFILE and PATH
InitTurns(homes, histfiles, paths) ==
    /\ env \in {[HOME |-> home, HISTFILE |-> hf, PATH |-> path] :
                   home \in homes, hf \in histfiles, path \in paths}
    /\ files \in {[fs EXCEPT ![<<"g">>] = IF env.HISTFILE = <<>> THEN NoFile
                                         ELSE FileOf(<<"l", "s", "\n">>)] : fs \in InitialFiles}
    /\ history = LoadedHistory(files, env)
    /\ historyAppendedCount = 0
    /\ cwd = <<"/">>
    /\ exited = NotExited
    /\ stages = <<EmptyCommand>>
    /\ callIn = Terminal
    /\ callOut = "stdout"
    /\ main = [pc |-> "idle", depth |-> 1]
    /\ task = <<IdleTask>>
    /\ pipe = <<EmptyPipe>>
    /\ sink = [stdout |-> <<>>, stderr |-> <<>>, buf |-> <<>>]
    /\ wrote = << <<>> >>
    /\ readBy = << <<>> >>
    /\ nlines = 0
    /\ before = [files |-> files, sink |-> sink, input |-> callIn.data]
    /\ ParseIdle

InitBuiltin == InitTurns({<<>>, <<"/", "h">>}, {<<>>, <<"g">>}, {DefaultPath})

InitHistory == InitTurns({<<"/", "h">>}, {<<>>, <<"g">>}, {DefaultPath})

\* one turn of the loop of Run on the line l: the line joins the history,
\* executeCommand parses it and runCommand returns nil at once on an empty
\* name or runs the handler of the name, which writes to os.Stdout
RunTurn(l) ==
    /\ ~exited.done
    /\ main.pc \in {"idle", "returned"}
    /\ nlines < MaxTurns
    /\ \E r \in {parseInput(l)} :
       \E h \in {IF r.cmd.Name = <<>>
                  THEN Handled([World EXCEPT !.history = Accepted(history, l)], <<>>)
                  ELSE Dispatch(r.cmd, [World EXCEPT !.history = Accepted(history, l)])} :
          /\ r.ok /\ r.cmd.Next = <<>>
          /\ ~h.reads /\ h.mode = "none"
          /\ stages' = <<r.cmd>>
          /\ history' = h.w.history
          /\ historyAppendedCount' = h.w.historyAppendedCount
          /\ files' = h.w.files
          /\ cwd' = h.w.cwd
          /\ exited' = h.w.exited
          /\ sink' = [sink EXCEPT !.stdout = h.w.osStdout \o h.out,
                                  !.stderr = h.w.osStderr]
    /\ line' = l
    /\ nlines' = nlines + 1
    /\ main' = [pc |-> "returned", depth |-> 1]
    /\ before' = [files |-> files, sink |-> sink, input |-> callIn.data]
    /\ UNCHANGED <<callIn, callOut, task, pipe, env, wrote, readBy>>
    /\ UNCHANGED <<input, pc, st, args, result>>

NextBuiltin ==
    \/ \E l \in BuiltinLines : RunTurn(l)
    \/ ReadEnd

SpecBuiltin == InitBuiltin /\ [][NextBuiltin]_vars

NextHistory ==
    \/ \E l \in HistoryLines : RunTurn(l)
    \/ ReadEnd

SpecHistory == InitHistory /\ [][NextHistory]_vars

\* the values of PATH of a session that looks commands up: absolute
\* directories in both orders, a directory with a trailing slash, the empty
\* value, and values with an empty or a relative element
PathValues ==
    { <<"/", "u", "s", "r", "/", "b", "i", "n", ":", "/", "b", "i", "n">>, <<"/", "b", "i", "n", ":", "/", "u", "s", "r", "/", "b", "i", "n">>, <<"/", "o", "p", "t", ":", "/", "b", "i", "n">>, <<"/", "b", "i", "n", "/">>, <<"/", "u", "s", "r", "/", "b", "i", "n">>,
      <<>>, <<".", ":", "/", "b", "i", "n">>, <<":", "/", "b", "i", "n">> }

\* the command names looked up and the lines that look them up
LookupNames == {<<"l", "s">>, <<"c", "a", "t">>, <<"n", "o", "s", "u", "c", "h">>}

TypeLines == {<<"t", "y", "p", "e", " ">> \o name : name \in LookupNames}

InitPath == InitTurns({<<"/", "h">>}, {<<>>}, PathValues)

NextPath ==
    \/ \E l \in TypeLines : RunTurn(l)
    \/ ReadEnd

SpecPath == InitPath /\ [][NextPath]_vars

----------------------------------------------------------------------------
(* Properties of the parser.                                               *)

\* the segments of a token sequence between its pipe tokens
RECURSIVE SegmentsFrom(_, _, _)
SegmentsFrom(t, cur, acc) ==
    IF t = <<>> THEN Append(acc, cur)
    ELSE IF Head(t) = Pipe THEN SegmentsFrom(Tail(t), <<>>, Append(acc, cur))
    ELSE SegmentsFrom(Tail(t), Append(cur, Head(t)), acc)

Segments(t) == SegmentsFrom(t, <<>>, <<>>)

\* a line of plain words with at least one pipe token, no redirection operator
\* token, and a token on both sides of every pipe token that belongs to the
\* segment next to it (no segment is empty)
PlainPipeLine(l) ==
    /\ ~ContainsAny(l, QuoteChars)
    /\ LET t == Fields(l) IN
       /\ \E k \in 1..Len(t) : t[k] = Pipe
       /\ \A k \in 1..Len(t) : t[k] \notin RedirectOps
       /\ \A j \in 1..Len(Segments(t)) : Segments(t)[j] # <<>>

\* C3: for a line of plain words with k >= 1 pipe tokens, each between two
\* non-empty segments, and no redirection operator, parseInput returns a
\* chain of exactly k+1 Commands in left-to-right order; each Name is the
\* first token of its segment, each Args the remaining tokens of the segment,
\* and only the last Command has no Next.
C3_PipeChain ==
    (pc = "done" /\ PlainPipeLine(line)) =>
        /\ result.ok
        /\ LET segs == Segments(Fields(line))
               ch == Chain(result.cmd)
           IN /\ Len(ch) = Len(segs)
              /\ Len(ch) = Cardinality({k \in 1..Len(Fields(line)) :
                                           Fields(line)[k] = Pipe}) + 1
              /\ \A j \in 1..Len(ch) :
                    /\ ch[j].Name = segs[j][1]
                    /\ ch[j].Args = Tail(segs[j])
                    /\ (ch[j].Next = <<>>) <=> (j = Len(ch))

C3_Witness ==
    /\ pc = "done"
    /\ PlainPipeLine(line)
    /\ result.ok
    /\ Len(Chain(result.cmd)) = 3
    /\ result.cmd.Args # <<>>

\* the flags the spec gives for each redirection operator:
\* <<RedirectStderr, AppendMode>>
FlagsOf(op) ==
    IF op \in {Gt, Gt1} THEN <<FALSE, FALSE>>
    ELSE IF op = Gt2 THEN <<TRUE, FALSE>>
    ELSE IF op \in {GtGt, Gt1Gt} THEN <<FALSE, TRUE>>
    ELSE <<TRUE, TRUE>>

\* token k is a redirection operator with a token before and after it, and no
\* token before it is an operator token
FirstIsRedirect(a, k) ==
    /\ 1 < k /\ k < Len(a)
    /\ a[k] \in RedirectOps
    /\ \A m \in 1..(k - 1) : a[m] \notin Operators

\* C4: when the first operator token is a redirection operator with a token
\* before and after it, parseInput sets RedirectFile to the following token,
\* removes the operator and that token from the argument list, and sets
\* (RedirectStderr, AppendMode) by operator: > 1> (F,F), 2> (T,F),
\* >> 1>> (F,T), 2>> (T,T).
C4_Redirect ==
    \A k \in 1..Len(args) :
        (pc = "done" /\ FirstIsRedirect(args, k)) =>
            /\ result.ok
            /\ result.cmd.RedirectFile = args[k + 1]
            /\ <<result.cmd.RedirectStderr, result.cmd.AppendMode>> = FlagsOf(args[k])
            /\ result.cmd.Name = TrimSpace(args[1])
            /\ result.cmd.Args = SubSeq(args, 2, k - 1) \o SubSeq(args, k + 2, Len(args))
            /\ result.cmd.Next = <<>>

C4_Witness ==
    /\ pc = "done"
    /\ FirstIsRedirect(args, 3)
    /\ args[3] = Gt2Gt
    /\ result.cmd.RedirectStderr /\ result.cmd.AppendMode
    /\ result.cmd.RedirectFile = <<"b">>
    /\ result.cmd.Args = <<<<"a">>>>

\* the characters of a string that are not white space, in order
RECURSIVE NonSpace(_)
NonSpace(s) ==
    IF s = <<>> THEN <<>>
    ELSE (IF IsSpace(Head(s)) THEN <<>> ELSE <<Head(s)>>) \o NonSpace(Tail(s))

\* t is the sequence of whitespace-split fields of l: the maximal runs of
\* characters that are not white space, in order
IsFieldsOf(t, l) ==
    /\ \A k \in 1..Len(t) : t[k] # <<>> /\ \A m \in 1..Len(t[k]) : ~IsSpace(t[k][m])
    /\ Join(t, <<>>) = NonSpace(l)
    /\ Len(t) = Cardinality({k \in 1..Len(l) :
                                ~IsSpace(l[k]) /\ (k = 1 \/ IsSpace(l[k - 1]))})

\* C9: for a line without single quote, double quote and backslash the token
\* sequence parseInput works on is the whitespace-split fields of the line;
\* if no token is a pipe or redirection operator, Name is the first field and
\* Args are the remaining fields in order.
C9_FastPath ==
    (pc \in {"scan", "done"} /\ ~ContainsAny(line, QuoteChars)) =>
        /\ IsFieldsOf(args, line)
        /\ (pc = "done" /\ args # <<>> /\ \A k \in 1..Len(args) : args[k] \notin Operators) =>
              /\ result.ok
              /\ result.cmd = Command(args[1], Tail(args), <<>>, FALSE, FALSE, <<>>)

C9_Witness ==
    /\ pc = "done"
    /\ ~ContainsAny(line, QuoteChars)
    /\ ContainsAny(line, {Tab})
    /\ Len(args) = 2
    /\ result.cmd.Name = args[1]
    /\ result.cmd.Args = <<args[2]>>

\* C10: in parseQuotedArgs, outside any quote, a backslash followed by a
\* character is dropped and that character is appended to the current token:
\* the token is not ended (also by an escaped space), no quoted run is opened
\* (also by an escaped quote character), an escaped backslash gives one
\* backslash, and the scan continues after the escaped character.
C10_UnquotedEscape ==
    [][(/\ pc = "parseQuotedArgs"
        /\ st.i < Len(input)
        /\ ~st.inQuotes
        /\ input[st.i] = Backslash)
       => (/\ st'.currentArg = Append(st.currentArg, input[st.i + 1])
           /\ st'.i = st.i + 2
           /\ st'.args = st.args
           /\ ~st'.inQuotes /\ st'.quoteChar = NoQuote)]_vars

C10_Witness ==
    /\ pc = "scan"
    /\ input = <<"a", Backslash, Space, "a">>
    /\ args = << <<"a", Space, "a">> >>

----------------------------------------------------------------------------
(* Properties of the quoting rules of parseQuotedArgs.                     *)

\* the scanner is at byte c of the input, inside a run opened by quote q
InsideQuote(q) ==
    /\ pc = "parseQuotedArgs"
    /\ st.i <= Len(input)
    /\ st.inQuotes
    /\ st.quoteChar = q

\* the step keeps the quote state and the emitted tokens
KeepsRun ==
    /\ st'.inQuotes = st.inQuotes
    /\ st'.quoteChar = st.quoteChar
    /\ st'.args = st.args

\* C11: in parseQuotedArgs, inside double quotes, a backslash followed by a
\* backslash or a double quote emits only the following character and
\* consumes both; a backslash followed by any other character is emitted
\* itself and the scan goes on at the following character, still inside the
\* double quotes; a space or a single quote inside double quotes is emitted
\* literally.
C11_DoubleQuoted ==
    [][InsideQuote(DoubleQuote) =>
        LET c == input[st.i] IN
        /\ (c = Backslash /\ st.i < Len(input)) =>
              LET nextChar == input[st.i + 1] IN
              IF nextChar \in {Backslash, DoubleQuote}
              THEN /\ st'.currentArg = Append(st.currentArg, nextChar)
                   /\ st'.i = st.i + 2
                   /\ KeepsRun
              ELSE /\ st'.currentArg = Append(st.currentArg, Backslash)
                   /\ st'.i = st.i + 1
                   /\ KeepsRun
        /\ c \in {Space, SingleQuote} =>
              /\ st'.currentArg = Append(st.currentArg, c)
              /\ st'.i = st.i + 1
              /\ KeepsRun]_vars

C11_Witness ==
    /\ pc = "scan"
    /\ input = <<DoubleQuote, Backslash, "a", DoubleQuote>>
    /\ args = << <<Backslash, "a">> >>

\* C12: in parseQuotedArgs, inside single quotes, every character other than
\* a single quote (backslash, double quote and space included) is appended
\* literally to the current token and the run goes on; the first single quote
\* met ends the run, also after a backslash, and is not appended.
C12_SingleQuoted ==
    [][InsideQuote(SingleQuote) =>
        LET c == input[st.i] IN
        IF c = SingleQuote
        THEN /\ ~st'.inQuotes
             /\ st'.quoteChar = NoQuote
             /\ st'.currentArg = st.currentArg
             /\ st'.args = st.args
             /\ st'.i = st.i + 1
        ELSE /\ st'.currentArg = Append(st.currentArg, c)
             /\ st'.i = st.i + 1
             /\ KeepsRun]_vars

C12_Witness ==
    /\ pc = "scan"
    /\ input = <<"a", Space, SingleQuote, "a", Backslash, SingleQuote, "b">>
    /\ args = << <<"a">>, <<"a", Backslash, "b">> >>

\* every emitted token is a non-empty string; adjacent runs give one token
\* and an empty quoted run alone gives none
EmittedTokens ==
    /\ pc = "parseQuotedArgs" => \A k \in 1..Len(st.args) : st.args[k] # <<>>
    /\ (pc \in {"scan", "done"} /\ UsesQuotedArgs(input)) =>
          /\ \A k \in 1..Len(args) : args[k] # <<>>
          /\ args \in {st.args, Append(st.args, st.currentArg)}
          /\ input = <<DoubleQuote, "a", DoubleQuote, DoubleQuote, "b", DoubleQuote>>
                => args = << <<"a", "b">> >>
          /\ input = <<SingleQuote, "a", SingleQuote, DoubleQuote, "b", DoubleQuote>>
                => args = << <<"a", "b">> >>
          /\ input = <<"a", DoubleQuote, "b", DoubleQuote, SingleQuote, "a", SingleQuote>>
                => args = << <<"a", "b", "a">> >>
          /\ input = <<"a", Space, DoubleQuote, DoubleQuote, Space, "b">>
                => args = << <<"a">>, <<"b">> >>
          /\ input = <<DoubleQuote, DoubleQuote>> => args = <<>>

\* the emitted tokens grow only at an unquoted space, by the non-empty token
\* under construction, and a quote character that opens or closes a run
\* leaves the token under construction as it is
EmitSteps ==
    (pc = "parseQuotedArgs" /\ st.i <= Len(input)) =>
        LET c == input[st.i] IN
        /\ st'.args # st.args =>
              /\ c = Space /\ ~st.inQuotes
              /\ st.currentArg # <<>>
              /\ st'.args = Append(st.args, st.currentArg)
              /\ st'.currentArg = <<>>
        /\ st'.inQuotes # st.inQuotes =>
              /\ st'.currentArg = st.currentArg
              /\ st'.args = st.args

\* C13: in parseQuotedArgs a token is emitted only at an unquoted, unescaped
\* space or at the end of the input, and only when the token under
\* construction is not empty; a quote that opens or closes a run changes
\* neither the token under construction nor the emitted tokens, so runs that
\* follow each other with no unquoted space between them form one token
\* ("a""b" gives ab) and an empty quoted run alone between separators gives
\* no token; every emitted token is a non-empty string.
C13_Tokens == []EmittedTokens /\ [][EmitSteps]_vars

C13_Witness ==
    /\ pc = "scan"
    /\ input = <<"a", DoubleQuote, "b", DoubleQuote, SingleQuote, "a", SingleQuote>>
    /\ args = << <<"a", "b", "a">> >>

----------------------------------------------------------------------------
(* Properties of the executor.                                             *)

\* stage i is an external program that copies its stdin
StageReads(i) ==
    /\ validateCommand(stages[i].Name)
    /\ stages[i].Name \notin builtinCommands
    /\ Program(stages[i].Name, stages[i].Args).reads

\* every stage has a name
NamedStages == \A i \in 1..Len(stages) : stages[i].Name # <<>>

\* C1: on a chain of N >= 2 stages, stage 1 reads the reader of the caller,
\* stage N writes to the writer of the caller, and for every i < N what stage
\* i+1 has read, followed by what pipe i still holds, is exactly what stage i
\* has written to its stdout, in write order; echo hello | cat delivers
\* exactly "hello\n" to the writer of the caller.
C1_PipeOrder ==
    (Len(stages) >= 2 /\ NamedStages) =>
        /\ \A i \in 1..(Len(stages) - 1) : wrote[i] = readBy[i + 1] \o pipe[i].buf
        /\ readBy[1] \o callIn.data = before.input
        /\ sink[callOut] = before.sink[callOut] \o wrote[Len(stages)]
        /\ (/\ stages = Chain(Link(<<Cmd(<<"e", "c", "h", "o">>, <<<<"h", "e", "l", "l", "o">>>>), Cmd(<<"c", "a", "t">>, <<>>)>>))
            /\ main.pc = "returned")
           => sink[callOut] = <<"h", "e", "l", "l", "o", "\n">>

C1_Witness ==
    /\ Len(stages) = 3
    /\ main.pc = "returned"
    /\ stages[1].Name = <<"c", "a", "t">>
    /\ readBy[1] = <<"i", "n", "\n">>
    /\ readBy[3] = <<"i", "n", "\n">>
    /\ sink.buf = <<"i", "n", "\n">>

\* the programs of the chain end by themselves: every stage has a name, no
\* stage ends the process, and a first stage that reads gets an input that ends
Terminating ==
    /\ NamedStages
    /\ \A i \in 1..Len(stages) :
          ~(stages[i].Name = <<"e", "x", "i", "t">>
            /\ (stages[i].Args = <<>> \/ Atoi(stages[i].Args[1]).ok))
    /\ StageReads(1) => callIn.eof

\* the write end of a pipe is closed only by the goroutine of its upstream
\* stage, after runCommand on that stage has returned
ClosedAfterReturn ==
    \A i \in 1..Len(stages) : pipe[i].wclosed => task[i].pc = "closed"

\* stage i is blocked for good: it has bytes to write, its pipe is full, and
\* the stage after it, the only reader of that pipe, has returned
BlockedForGood(i) ==
    /\ HasNext(i)
    /\ task[i].pc = "run"
    /\ task[i].pend # <<>>
    /\ Len(pipe[i].buf) >= PipeCap
    /\ task[i + 1].pc \in {"returned", "closed"}

\* C2: in a pipeline whose stages each terminate, the write end of every
\* pipe is closed after, and never before, its upstream stage has returned,
\* so every downstream stage eventually reads the end of its input: no
\* downstream stage that reads is ever blocked for good before it has read
\* the end of its input.
C2_EveryReaderSeesEof ==
    /\ ClosedAfterReturn
    /\ Terminating =>
          \A i \in 2..Len(stages) :
              ~(StageReads(i) /\ ~task[i].eof /\ BlockedForGood(i))

\* the normal output of a stage that does not read: what its handler writes
\* when the Command has no redirection
PlainOutput(cmd) ==
    Dispatch([cmd EXCEPT !.RedirectFile = <<>>, !.RedirectStderr = FALSE], World).out

\* C5: for every last stage with a redirect target and redirect stream
\* stdout, builtin (echo, type, pwd, history) or external, the normal output
\* of the stage is written to the target file (replacing its content when
\* AppendMode is false, appended when true) and not to the stdout of the
\* stage.
C5_StdoutRedirect ==
    LET n == Len(stages)
        c == stages[n]
    IN (/\ task[n].pc = "returned"
        /\ ~exited.done
        /\ validateCommand(c.Name)
        /\ c.Name \notin {<<"e", "x", "i", "t">>, <<"c", "d">>}
        /\ c.RedirectFile \in FilePaths
        /\ ~c.RedirectStderr)
       => /\ wrote[n] = <<>>
          /\ files[c.RedirectFile] =
                FileOf((IF c.AppendMode THEN before.files[c.RedirectFile].data ELSE <<>>)
                       \o (IF StageReads(n) THEN readBy[n] ELSE PlainOutput(c)))

\* C6: when the name of a stage is neither a builtin nor on the search path,
\* runCommand writes "<name>: command not found\n" to the stdout it was given
\* for that stage (the pipe to the next stage when the stage is not the last),
\* and returns.
C6_NotFoundToStdout ==
    \A i \in 1..Len(stages) :
        (/\ stages[i].Name # <<>>
         /\ ~validateCommand(stages[i].Name)
         /\ task[i].pc \in {"returned", "closed"})
        => IF HasNext(i)
           THEN readBy[i + 1] \o pipe[i].buf = NotFoundMessage(stages[i].Name)
           ELSE sink[callOut] = before.sink[callOut] \o NotFoundMessage(stages[i].Name)

\* C7: after echo x > f the file f holds exactly "x\n" whatever it held
\* before, after a following echo y >> f exactly "x\ny\n"; for echo, > replaces
\* the whole content of the target, >> keeps it and adds the line at the end,
\* and nothing is written to the output stream.
C7_EchoRoundTrip ==
    LET c == stages[1]
        n == Len(history)
    IN (/\ main.pc = "returned"
        /\ ~exited.done
        /\ Len(stages) = 1
        /\ c.Name = <<"e", "c", "h", "o">>
        /\ c.RedirectFile \in FilePaths
        /\ ~c.RedirectStderr)
       => /\ files[c.RedirectFile] =
                FileOf((IF c.AppendMode THEN before.files[c.RedirectFile].data ELSE <<>>)
                       \o Join(c.Args, <<Space>>) \o <<"\n">>)
          /\ \A p \in FilePaths \ {c.RedirectFile} : files[p] = before.files[p]
          /\ sink = before.sink
          /\ wrote[1] = <<>>
          /\ history[n] = <<"e", "c", "h", "o", " ", "x", " ", ">", " ", "f">> => files[<<"f">>] = FileOf(<<"x", "\n">>)
          /\ (n >= 2 /\ history[n - 1] = <<"e", "c", "h", "o", " ", "x", " ", ">", " ", "f">> /\ history[n] = <<"e", "c", "h", "o", " ", "y", " ", ">", ">", " ", "f">>)
             => files[<<"f">>] = FileOf(<<"x", "\n", "y", "\n">>)

C7_Witness ==
    /\ main.pc = "returned"
    /\ ~exited.done
    /\ Len(history) = 2
    /\ history[1] = <<"e", "c", "h", "o", " ", "x", " ", ">", " ", "f">>
    /\ history[2] = <<"e", "c", "h", "o", " ", "y", " ", ">", ">", " ", "f">>
    /\ before.files[<<"f">>] = FileOf(<<"x", "\n">>)
    /\ files[<<"f">>] = FileOf(<<"x", "\n", "y", "\n">>)
    /\ sink.stdout = <<>>

\* C8: for echo with a redirect target whose stream is stderr, the joined
\* text plus newline is written to the stdout of the stage and nothing of it
\* to the file; the target file is created if absent, emptied when AppendMode
\* is false, and keeps its content when AppendMode is true.
C8_EchoStderrRedirect ==
    \A i \in 1..Len(stages) :
        LET c == stages[i] IN
        (/\ c.Name = <<"e", "c", "h", "o">>
         /\ c.RedirectFile \in FilePaths
         /\ c.RedirectStderr
         /\ task[i].pc \in {"run", "returned", "closed"})
        => /\ wrote[i] \o task[i].pend = Join(c.Args, <<Space>>) \o <<"\n">>
           /\ task[i].pc # "run" => task[i].pend = <<>>
           /\ ~HasNext(i) => sink[callOut] = before.sink[callOut] \o wrote[i]
           /\ files[c.RedirectFile] =
                 FileOf(IF c.AppendMode THEN before.files[c.RedirectFile].data ELSE <<>>)

C8_Witness ==
    /\ Len(stages) = 1
    /\ stages[1].Name = <<"e", "c", "h", "o">>
    /\ stages[1].RedirectStderr /\ stages[1].AppendMode
    /\ task[1].pc = "returned"
    /\ before.files[<<"f">>] = FileOf(<<"o", "l", "d", "\n">>)
    /\ files[<<"f">>] = FileOf(<<"o", "l", "d", "\n">>)
    /\ sink.buf = <<"x", "\n">>

----------------------------------------------------------------------------
(* Properties of the history and of the builtins that end or move the      *)
(* session.                                                                *)

\* a turn on the line l has just ended and the session goes on
AfterTurn(l) ==
    /\ main.pc = "returned"
    /\ ~exited.done
    /\ nlines > 0
    /\ line = l

\* a session that has just started on the files of this one, with no
\* history file: its history is empty and its cursor 0
FreshSession == [World EXCEPT !.history = <<>>, !.historyAppendedCount = 0]

\* C14: for every history a session accumulates (one entry per line read,
\* empty lines included), history -w f followed by history -r f in a fresh
\* session with empty history gives that session the same entries, in the
\* same order and number.
C14_HistoryRoundTrip ==
    AfterTurn(<<"h", "i", "s", "t", "o", "r", "y", " ", "-", "w", " ", "f">>) =>
        handleHistory(<<<<"-", "r">>, <<"f">>>>, FreshSession).w.history = history

\* the entries of a sequence, one per line
RECURSIVE OnePerLine(_)
OnePerLine(entries) ==
    IF entries = <<>> THEN <<>>
    ELSE Head(entries) \o <<"\n">> \o OnePerLine(Tail(entries))

\* a turn on history -a f: the file gets, after what it held, the entries
\* after the cursor (the line of the turn included), one per line, and the
\* cursor becomes the entry count
AppendTurn ==
    (nlines' = nlines + 1 /\ line' = <<"h", "i", "s", "t", "o", "r", "y", " ", "-", "a", " ", "f">>) =>
        /\ history' = Append(history, line')
        /\ files'[<<"f">>] =
              FileOf(files[<<"f">>].data
                     \o OnePerLine(SubSeq(history', historyAppendedCount + 1,
                                          Len(history'))))
        /\ historyAppendedCount' = Len(history')
        /\ sink' = sink

\* no step takes an entry out of the history or moves the cursor back, so
\* the entries a later -a writes come after all those an earlier one wrote
CursorAdvances ==
    /\ historyAppendedCount' >= historyAppendedCount
    /\ Len(history') >= Len(history)
    /\ SubSeq(history', 1, Len(history)) = history

\* right after history -a the cursor is the entry count, and a further
\* history -a f with no new entry writes nothing
NothingNewToAppend ==
    /\ historyAppendedCount <= Len(history)
    /\ AfterTurn(<<"h", "i", "s", "t", "o", "r", "y", " ", "-", "a", " ", "f">>) =>
          LET again == handleHistory(<<<<"-", "a">>, <<"f">>>>, World) IN
          /\ historyAppendedCount = Len(history)
          /\ again.w.files = files
          /\ again.w.historyAppendedCount = historyAppendedCount
          /\ again.out = <<>>
    /\ (/\ env.HISTFILE = <<>>
        /\ history = <<<<"a">>, <<"h", "i", "s", "t", "o", "r", "y", " ", "-", "a", " ", "f">>, <<"h", "i", "s", "t", "o", "r", "y", " ", "-", "a", " ", "f">>>>)
       => files[<<"f">>].data \in
             {old \o <<"a", "\n", "h", "i", "s", "t", "o", "r", "y", " ", "-", "a", " ", "f", "\n", "h", "i", "s", "t", "o", "r", "y", " ", "-", "a", " ", "f", "\n">> : old \in {<<>>, <<"o", "l", "d", "\n">>}}

\* C15: history -a f appends to the end of f exactly the entries added to
\* the history since the previous history -a (all entries when there was
\* none), in order and one per line, keeps what f held, and sets the cursor
\* to the entry count; over any sequence of turns each entry is appended by
\* -a at most once, and a second -a with no new entry writes nothing.
C15_HistoryAppend ==
    /\ []NothingNewToAppend
    /\ [][AppendTurn /\ CursorAdvances]_vars

C15_Witness ==
    /\ AfterTurn(<<"h", "i", "s", "t", "o", "r", "y", " ", "-", "a", " ", "f">>)
    /\ history = <<<<"a">>, <<"h", "i", "s", "t", "o", "r", "y", " ", "-", "a", " ", "f">>, <<"h", "i", "s", "t", "o", "r", "y", " ", "-", "a", " ", "f">>>>
    /\ before.files[<<"f">>] = FileOf(<<"o", "l", "d", "\n", "a", "\n", "h", "i", "s", "t", "o", "r", "y", " ", "-", "a", " ", "f", "\n">>)
    /\ files[<<"f">>] = FileOf(<<"o", "l", "d", "\n", "a", "\n", "h", "i", "s", "t", "o", "r", "y", " ", "-", "a", " ", "f", "\n", "h", "i", "s", "t", "o", "r", "y", " ", "-", "a", " ", "f", "\n">>)
    /\ historyAppendedCount = 3

\* the text a turn has written to os.Stdout
TurnOutput == SubSeq(sink.stdout, Len(before.sink.stdout) + 1, Len(sink.stdout))

\* the text lists the entries of h from position first on, one per line,
\* each after its position in h
ListsFrom(text, h, first) ==
    LET rows == SplitLines(text) IN
    /\ Len(rows) = (Len(h) - first + 1) + 1
    /\ rows[Len(rows)] = <<>>
    /\ \A k \in first..Len(h) :
          rows[k - first + 1] = <<" ", " ", " ", " ">> \o Itoa(k) \o <<" ", " ">> \o h[k]

\* a stage of the line runs history -r
RunsHistoryRead(l) ==
    LET r == parseInput(l) IN
    /\ r.ok
    /\ \E k \in 1..Len(Chain(r.cmd)) :
          LET c == Chain(r.cmd)[k] IN
          c.Name = <<"h", "i", "s", "t", "o", "r", "y">> /\ Len(c.Args) > 0 /\ c.Args[1] = <<"-", "r">>

\* the session was started with no history file
NoHistoryFile == env.HISTFILE = <<>>

\* C16 as stated: in a session started with no history file, after the REPL
\* has read N lines of any content, history with no argument lists exactly N
\* entries, numbered 1..N, the line that invoked history being the last.
C16_ListsEveryLine ==
    (AfterTurn(<<"h", "i", "s", "t", "o", "r", "y">>) /\ NoHistoryFile) =>
        /\ Len(history) = nlines
        /\ history[Len(history)] = <<"h", "i", "s", "t", "o", "r", "y">>
        /\ sink.stdout = before.sink.stdout \o TurnOutput
        /\ ListsFrom(TurnOutput, history, 1)

\* the lines read so far are the entries of the history, in the order read,
\* when no line ran history -r
LinesListed ==
    (/\ AfterTurn(<<"h", "i", "s", "t", "o", "r", "y">>)
     /\ NoHistoryFile
     /\ \A k \in 1..Len(history) : ~RunsHistoryRead(history[k])) =>
        /\ Len(history) = nlines
        /\ history[Len(history)] = <<"h", "i", "s", "t", "o", "r", "y">>
        /\ sink.stdout = before.sink.stdout \o TurnOutput
        /\ ListsFrom(TurnOutput, history, 1)

\* the line a turn reads comes right after the entries the history had
LineJoinsHistory ==
    nlines' = nlines + 1 =>
        /\ Len(history') > Len(history)
        /\ SubSeq(history', 1, Len(history) + 1) = Append(history, line')

\* C16, amended: in a session started with no history file in which no line
\* has run history -r, after the REPL has read N lines of any content,
\* history with no argument lists exactly N entries, numbered 1..N, in the
\* order the lines were read, the line that invoked history being the last.
C16_ListsLinesRead == []LinesListed /\ [][LineJoinsHistory]_vars

C16_Witness ==
    /\ AfterTurn(<<"h", "i", "s", "t", "o", "r", "y">>)
    /\ NoHistoryFile
    /\ nlines = 3
    /\ history = <<<<>>, <<"a">>, <<"h", "i", "s", "t", "o", "r", "y">>>>
    /\ TurnOutput = <<" ", " ", " ", " ", "1", " ", " ", "\n", " ", " ", " ", " ", "2", " ", " ", "a", "\n", " ", " ", " ", " ", "3", " ", " ", "h", "i", "s", "t", "o", "r", "y", "\n">>

\* the lines history N of the session, each with its N
LimitLines ==
    { <<<<"h", "i", "s", "t", "o", "r", "y", " ", "1">>, 1>>, <<<<"h", "i", "s", "t", "o", "r", "y", " ", "2">>, 2>>, <<<<"h", "i", "s", "t", "o", "r", "y", " ", "0">>, 0>>,
      <<<<"h", "i", "s", "t", "o", "r", "y", " ", "-", "1">>, 0 - 1>> }

\* after a turn on history N the output of the turn lists the last N entries
\* when 0 < N < entry count, all entries otherwise, each after its position
\* in the whole history
LimitListed ==
    \A ln \in LimitLines :
        AfterTurn(ln[1]) =>
            LET n == ln[2]
                count == Len(history)
            IN /\ sink.stdout = before.sink.stdout \o TurnOutput
               /\ ListsFrom(TurnOutput, history,
                            IF 0 < n /\ n < count THEN count - n + 1 ELSE 1)

\* a turn on history or history N changes the history by the line of the
\* turn only, and neither the cursor nor a file
ListingKeepsHistory ==
    (/\ nlines' = nlines + 1
     /\ line' \in {ln[1] : ln \in LimitLines} \cup {<<"h", "i", "s", "t", "o", "r", "y">>}) =>
        /\ history' = Append(history, line')
        /\ historyAppendedCount' = historyAppendedCount
        /\ files' = files

\* C17: history N with 0 < N < entry count lists exactly the last N
\* entries, each numbered with its position in the full history
\* (count-N+1 .. count); with N >= entry count or N <= 0 it lists all
\* entries; the listing never changes the history.
C17_HistoryLimit == []LimitListed /\ [][ListingKeepsHistory]_vars

C17_Witness ==
    /\ AfterTurn(<<"h", "i", "s", "t", "o", "r", "y", " ", "2">>)
    /\ history = <<<<"l", "s">>, <<"a">>, <<>>, <<"h", "i", "s", "t", "o", "r", "y", " ", "2">>>>
    /\ TurnOutput = <<" ", " ", " ", " ", "3", " ", " ", "\n", " ", " ", " ", " ", "4", " ", " ", "h", "i", "s", "t", "o", "r", "y", " ", "2", "\n">>

\* a turn on an exit line: a non-numeric argument leaves the process running
\* and prints the argument error; no argument ends it with status 0; the
\* argument 3 ends it with status 3, the file HISTFILE names then holding
\* the history, the exit line included, one entry per line
ExitTurn ==
    nlines' = nlines + 1 =>
        /\ line' = <<"e", "x", "i", "t", " ", "x">> =>
              /\ ~exited'.done
              /\ sink'.stdout = sink.stdout \o <<"i", "n", "c", "o", "r", "r", "e", "c", "t", " ", "c", "o", "m", "m", "a", "n", "d", " ", "a", "r", "g", "u", "m", "e", "n", "t", "s">>
        /\ line' = <<"e", "x", "i", "t">> => exited' = [done |-> TRUE, code |-> 0]
        /\ line' = <<"e", "x", "i", "t", " ", "3">> =>
              /\ exited' = [done |-> TRUE, code |-> 3]
              /\ IF env.HISTFILE # <<>>
                 THEN files' = [files EXCEPT ![env.HISTFILE] =
                                   FileOf(OnePerLine(Append(history, line')))]
                 ELSE files' = files

\* C18: exit with a non-numeric first argument prints an argument error and
\* does not end the process; exit with no argument ends it with status 0;
\* exit with a numeric first argument n writes the history to the file
\* HISTFILE names (one entry per line, trailing newline) if HISTFILE is set
\* and not empty, and ends the process with status n.
C18_Exit == [][ExitTurn]_vars

C18_Witness ==
    /\ line = <<"e", "x", "i", "t", " ", "3">>
    /\ exited = [done |-> TRUE, code |-> 3]
    /\ env.HISTFILE = <<"g">>
    /\ history = <<<<"l", "s">>, <<"e", "x", "i", "t", " ", "x">>, <<"e", "x", "i", "t", " ", "3">>>>
    /\ files[<<"g">>] = FileOf(<<"l", "s", "\n", "e", "x", "i", "t", " ", "x", "\n", "e", "x", "i", "t", " ", "3", "\n">>)

\* the cd lines of the session, each with the directory it names (HOME for
\* no argument and for ~)
CdLines ==
    { <<<<"c", "d">>, env.HOME>>, <<<<"c", "d", " ", "~">>, env.HOME>>, <<<<"c", "d", " ", "/", "h">>, <<"/", "h">>>>,
      <<<<"c", "d", " ", "/", "x">>, <<"/", "x">>>> }

\* a turn on a cd line: the working directory becomes the directory named
\* and nothing is written, or the change fails, the working directory stays
\* and the failure is reported
CdTurn ==
    \A ln \in CdLines :
        (nlines' = nlines + 1 /\ line' = ln[1]) =>
            IF ln[2] \in Directories
            THEN /\ cwd' = ln[2]
                 /\ sink' = sink
            ELSE /\ cwd' = cwd
                 /\ sink'.stdout = sink.stdout
                 /\ sink'.stderr = sink.stderr \o <<"c", "d", ":", " ">> \o ln[2]
                                       \o <<":", " ", "N", "o", " ", "s", "u", "c", "h", " ", "f", "i", "l", "e", " ", "o", "r", " ", "d", "i", "r", "e", "c", "t", "o", "r", "y", "\n">>

\* C19: cd with no argument or with the single argument ~ changes the
\* working directory to the value of HOME, otherwise to the literal
\* argument; when the change fails cd reports
\* "cd: <path>: No such file or directory" and the working directory is the
\* one before the call; when it succeeds cd writes nothing.
C19_Cd == [][CdTurn]_vars

C19_Witness ==
    /\ AfterTurn(<<"c", "d", " ", "~">>)
    /\ history = <<<<"c", "d", " ", "/", "x">>, <<"c", "d", " ", "~">>>>
    /\ env.HOME = <<"/", "h">>
    /\ cwd = <<"/", "h">>
    /\ sink.stderr = <<"c", "d", ":", " ", "/", "x", ":", " ", "N", "o", " ", "s", "u", "c", "h", " ", "f", "i", "l", "e", " ", "o", "r", " ", "d", "i", "r", "e", "c", "t", "o", "r", "y", "\n">>
    /\ sink.stdout = <<>>

\* the file exists and one of its execute permission bits (owner, group,
\* other) is set
Executable(file) ==
    /\ file \in DOMAIN FileModes
    /\ \/ FileModes[file] % 2 = 1
       \/ (FileModes[file] \div 8) % 2 = 1
       \/ (FileModes[file] \div 64) % 2 = 1

\* the positions in the search path at which the name is an executable file
Hits(name) ==
    {k \in 1..Len(PathDirs) : Executable(JoinPath(PathDirs[k], name))}

\* the candidate of the first such position, the empty string without one
FirstHit(name) ==
    IF Hits(name) = {} THEN <<>>
    ELSE JoinPath(PathDirs[CHOOSE k \in Hits(name) : \A j \in Hits(name) : k <= j],
                  name)

\* isInPath gives the first candidate, and type reports it
FindsFirstHit(name) ==
    /\ isInPath(name) = FirstHit(name)
    /\ AfterTurn(<<"t", "y", "p", "e", " ">> \o name) =>
          TurnOutput = IF FirstHit(name) = <<>> THEN name \o <<":", " ", "n", "o", "t", " ", "f", "o", "u", "n", "d", "\n">>
                       ELSE name \o <<" ", "i", "s", " ">> \o FirstHit(name) \o <<"\n">>

----------------------------------------------------------------------------
(* Properties of the operator scan of parseInput.                          *)

\* token k is the first operator token of a that has a token after it, it is
\* a redirection operator, and token p, after the operand, is a pipe token
RedirectBeforePipe(a, k, p) ==
    /\ 1 <= k
    /\ \A m \in 1..(k - 1) : a[m] \notin Operators
    /\ a[k] \in RedirectOps
    /\ k + 1 < p /\ p <= Len(a)
    /\ a[p] = Pipe

\* the last n elements of a sequence
LastOf(s, n) == SubSeq(s, Len(s) - n + 1, Len(s))

\* C21 as stated: whenever a redirection operator with its operand comes
\* before a pipe token, the result is one Command with the redirect set and
\* no Next, and the pipe token and all tokens after it are the last
\* arguments of Args.
C21_RedirectBeforePipe ==
    \A k \in 1..Len(args) : \A p \in 1..Len(args) :
        (pc = "done" /\ RedirectBeforePipe(args, k, p)) =>
            /\ result.ok
            /\ result.cmd.RedirectFile = args[k + 1]
            /\ result.cmd.Next = <<>>
            /\ Len(result.cmd.Args) >= Len(args) - p + 1
            /\ LastOf(result.cmd.Args, Len(args) - p + 1) = SubSeq(args, p, Len(args))

\* C21: when a redirection operator that has a token before it and its
\* operand after it comes before a pipe token, parseInput returns a single
\* Command with the redirect set and Next absent; the pipe token and every
\* token after it, a second redirection operator included, stay in Args as
\* literal arguments.
C21_RedirectWins ==
    \A k \in 2..Len(args) : \A p \in 1..Len(args) :
        (pc = "done" /\ RedirectBeforePipe(args, k, p)) =>
            /\ result.ok
            /\ result.cmd.RedirectFile = args[k + 1]
            /\ result.cmd.Next = <<>>
            /\ result.cmd.Name = TrimSpace(args[1])
            /\ result.cmd.Args = SubSeq(args, 2, k - 1) \o SubSeq(args, k + 2, Len(args))
            /\ Len(result.cmd.Args) >= Len(args) - p + 1
            /\ LastOf(result.cmd.Args, Len(args) - p + 1) = SubSeq(args, p, Len(args))

C21_Witness ==
    /\ pc = "done"
    /\ args = <<<<"a">>, Gt, <<"a">>, Pipe, Gt2Gt, <<"a">>>>
    /\ RedirectBeforePipe(args, 2, 4)
    /\ result.cmd.RedirectFile = <<"a">>
    /\ result.cmd.Next = <<>>
    /\ result.cmd.Args = <<Pipe, Gt2Gt, <<"a">>>>

\* the Commands of the chain parseInput has returned
ResultChain == Chain(result.cmd)

\* C22: every Command of a chain returned by parseInput that has a Next has
\* an empty RedirectFile and RedirectStderr and AppendMode false: only the
\* last Command of a chain carries a redirection.
C22_InteriorNoRedirect ==
    (pc = "done" /\ result.ok) =>
        \A j \in 1..Len(ResultChain) :
            ResultChain[j].Next # <<>> =>
                /\ ResultChain[j].RedirectFile = <<>>
                /\ ~ResultChain[j].RedirectStderr
                /\ ~ResultChain[j].AppendMode

C22_Witness ==
    /\ pc = "done"
    /\ result.ok
    /\ args = <<<<"a">>, Pipe, <<"a">>, Gt2Gt, <<"a">>>>
    /\ Len(ResultChain) = 2
    /\ ResultChain[1].RedirectFile = <<>>
    /\ ResultChain[2].RedirectFile = <<"a">>
    /\ ResultChain[2].RedirectStderr /\ ResultChain[2].AppendMode

----------------------------------------------------------------------------
(* Properties of the tasks of a chain and of the session state they share. *)

\* the last stage of the chain has completed and the top-level call has not
\* yet returned
LastStageDone ==
    /\ ~exited.done
    /\ main.pc = "wait"
    /\ task[Len(stages)].pc = "returned"

\* a stage before the last is still running in its task
UpstreamRunning ==
    \E i \in 1..(Len(stages) - 1) : task[i].pc \in {"ready", "run"}

\* C23: once the last stage of a chain has completed, the top-level call of
\* runCommand can return, whatever the tasks of the upstream stages are
\* doing: it does not wait for them.
C23_ReturnsWithoutJoin == LastStageDone => ENABLED MainReturn

\* the top-level call has returned while the first stage is blocked reading
\* the caller's input, which the last stage ignores
C23_Witness ==
    /\ main.pc = "returned"
    /\ Len(stages) = 2
    /\ stages[1].Name = <<"c", "a", "t">>
    /\ stages[2].Name = <<"e", "c", "h", "o">>
    /\ task[2].pc = "returned"
    /\ task[1].pc = "run" /\ task[1].reads
    /\ callIn.data = <<>> /\ ~callIn.eof
    /\ UpstreamRunning
    /\ sink.buf = <<"h", "e", "l", "l", "o", "\n">>

\* a builtin that writes the state of the session: the working directory,
\* the process, the history or the append cursor
SessionMutating(cmd) ==
    \/ cmd.Name \in {<<"c", "d">>, <<"e", "x", "i", "t">>}
    \/ /\ cmd.Name = <<"h", "i", "s", "t", "o", "r", "y">>
       /\ Len(cmd.Args) > 0
       /\ cmd.Args[1] \in {<<"-", "r">>, <<"-", "a">>}

\* C24: a session-mutating builtin in a stage before the last runs in its
\* own task with no synchronisation: as long as it has not run it can run
\* at any moment, whatever the caller's flow of control is doing, and the
\* last stage on the caller's flow of control can run before it; so both
\* orders of their reads and writes of the session state happen.
C24_Unsynchronised ==
    \A i \in 1..(Len(stages) - 1) :
        (~exited.done /\ SessionMutating(stages[i]) /\ task[i].pc = "ready") =>
            /\ ENABLED StartStage(i)
            /\ task[Len(stages)].pc = "ready" => ENABLED StartStage(Len(stages))

\* cd /h | pwd: the last stage has printed the directory it read before the
\* task of cd changed it
C24_Witness ==
    /\ Len(stages) = 2
    /\ stages[1].Name = <<"c", "d">> /\ stages[2].Name = <<"p", "w", "d">>
    /\ SessionMutating(stages[1])
    /\ task[1].pc \in {"returned", "closed"}
    /\ task[2].pc = "returned"
    /\ cwd = <<"/", "h">>
    /\ sink.buf = <<"/", "\n">>

\* exit | ls: the task of exit has ended the process while the last stage
\* was still writing
ExitWhileDownstreamRuns ==
    /\ Len(stages) = 2
    /\ stages[1].Name = <<"e", "x", "i", "t">>
    /\ exited.done
    /\ task[2].pc \in {"ready", "run"}

\* history -r f | history: the last stage has listed the history either
\* before or after the task of history -r added the line of the file
ListedBeforeRead ==
    /\ Len(stages) = 2
    /\ stages[1].Args = <<<<"-", "r">>, <<"f">>>>
    /\ task[1].pc \in {"returned", "closed"}
    /\ task[2].pc = "returned"
    /\ Len(history) = 3
    /\ sink.buf = HistoryListing(SubSeq(history, 1, 2), 0)

----------------------------------------------------------------------------
(* Properties of the parser on malformed lines.                            *)

\* the scan of parseQuotedArgs has reached the end of the input inside a
\* quoted run
EndsInsideQuote ==
    /\ pc = "parseQuotedArgs"
    /\ st.i > Len(input)
    /\ st.inQuotes

\* C25: when parseQuotedArgs reaches the end of the input inside a quoted
\* run it returns: the characters accumulated so far are the last token if
\* there is at least one, no token is added if there is none, and no error
\* is reported.
C25_UnterminatedQuote ==
    [][EndsInsideQuote =>
          /\ pc' = "scan"
          /\ args' = IF st.currentArg # <<>> THEN Append(st.args, st.currentArg)
                     ELSE st.args]_vars

C25_Witness ==
    /\ pc = "scan"
    /\ input = <<"a", Space, DoubleQuote, "a">>
    /\ st.inQuotes /\ st.quoteChar = DoubleQuote
    /\ st.i > Len(input)
    /\ args = <<<<"a">>, <<"a">>>>

\* C26: parseInput returns a Command without a run-time fault for every
\* input line, also for a line whose tokenization is empty, a line whose
\* first token is a redirection operator followed by one token, and a line
\* or pipe segment whose first token is the pipe token.
C26_NoParserFault == pc = "done" => result.ok

\* token k of a is a pipe token with a token before and after it, and the
\* only operator token of a
OnlyPipeAt(a, k) ==
    /\ 1 < k /\ k < Len(a)
    /\ a[k] = Pipe
    /\ \A m \in 1..Len(a) : m # k => a[m] \notin Operators

\* C27: splitting on a pipe preserves the tokenization: when the only
\* operator token is a pipe token at position k, the Command after the pipe
\* has the token k+1 of the first tokenization as its Name and the tokens
\* after it as its Args, also when such a token holds a space, a quote
\* character or a backslash.
C27_PipeKeepsTokens ==
    \A k \in 1..Len(args) :
        (pc = "done" /\ result.ok /\ OnlyPipeAt(args, k)) =>
            /\ result.cmd.Next # <<>>
            /\ result.cmd.Next[1].Name = args[k + 1]
            /\ result.cmd.Next[1].Args = SubSeq(args, k + 2, Len(args))

----------------------------------------------------------------------------
(* Properties of the history and of its cursor over a whole session.       *)

\* the cursor counts entries of the history
CursorInRange ==
    /\ 0 <= historyAppendedCount
    /\ historyAppendedCount <= Len(history)

\* a step keeps every entry of the history at its place and does not move
\* the cursor back
HistoryGrows ==
    /\ Len(history') >= Len(history)
    /\ SubSeq(history', 1, Len(history)) = history
    /\ historyAppendedCount' >= historyAppendedCount

\* C28: in every state of a session 0 <= historyAppendedCount <=
\* len(history), and no operation (a line joining the history, a listing,
\* history -r, -w, -a, a failed file operation) removes or reorders an entry
\* of the history or decreases the cursor.
C28_AppendOnly == []CursorInRange /\ [][HistoryGrows]_vars

\* after history -a f, then history -r f: the cursor is behind the end of the
\* history, which has grown by the line and by what the file holds
C28_Witness ==
    /\ AfterTurn(<<"h", "i", "s", "t", "o", "r", "y", " ", "-", "r", " ", "f">>)
    /\ nlines = 2
    /\ historyAppendedCount > 0
    /\ historyAppendedCount < Len(history)
    /\ Len(history) > Len(LoadedHistory(before.files, env)) + nlines

\* a failed file operation has left the history and the cursor alone
FailedAppendKeepsCursor ==
    /\ AfterTurn(<<"h", "i", "s", "t", "o", "r", "y", " ", "-", "a", " ", "d">>)
    /\ TurnOutput # <<>>
    /\ historyAppendedCount = 0

----------------------------------------------------------------------------
(* Properties of handleExit on the history file.                           *)

\* the exit lines of the session
ExitLines == {<<"e", "x", "i", "t">>, <<"e", "x", "i", "t", " ", "3">>, <<"e", "x", "i", "t", " ", "x">>}

\* a turn on an exit line leaves the file HISTFILE names holding the whole
\* history, the exit line included, whatever the argument is; with a
\* non-numeric argument the process goes on
ExitSavesFirst ==
    (nlines' = nlines + 1 /\ line' \in ExitLines) =>
        /\ IF env.HISTFILE # <<>>
           THEN files' = [files EXCEPT ![env.HISTFILE] =
                             FileOf(OnePerLine(Append(history, line')))]
           ELSE files' = files
        /\ line' = <<"e", "x", "i", "t", " ", "x">> => ~exited'.done

\* C29: handleExit overwrites the file HISTFILE names with the full history
\* whenever HISTFILE is set and not empty, before it looks at its arguments:
\* also for exit with no argument, and for exit with a non-numeric argument,
\* after which the shell keeps running with the file rewritten.
C29_ExitSavesFirst == [][ExitSavesFirst]_vars

C29_Witness ==
    /\ AfterTurn(<<"e", "x", "i", "t", " ", "x">>)
    /\ nlines = 1
    /\ env.HISTFILE = <<"g">>
    /\ before.files[<<"g">>] = FileOf(<<"l", "s", "\n">>)
    /\ files[<<"g">>] = FileOf(<<"l", "s", "\n", "e", "x", "i", "t", " ", "x", "\n">>)
    /\ TurnOutput = <<"i", "n", "c", "o", "r", "r", "e", "c", "t", " ", "c", "o", "m", "m", "a", "n", "d", " ", "a", "r", "g", "u", "m", "e", "n", "t", "s">>

----------------------------------------------------------------------------
(* Properties of the operator scan on tokens spelled with quotes.          *)

\* token k of a is the first operator token, with a token before and after it
FirstOperatorAt(a, k) ==
    /\ 1 < k /\ k < Len(a)
    /\ a[k] \in Operators
    /\ \A m \in 1..(k - 1) : a[m] \notin Operators

\* C30: the operator scan looks at the text of a token only: on a line with
\* quotes or backslashes a token equal to an operator and followed by a
\* token is that operator however it was spelled (a redirection takes the
\* next token as its file, a pipe token starts the next Command), and only
\* an operator token that is the last token stays a literal argument.
C30_QuotedOperators ==
    (pc = "done" /\ ContainsAny(input, QuoteChars)) =>
        /\ \A k \in 1..Len(args) :
              FirstOperatorAt(args, k) =>
                  IF args[k] \in RedirectOps
                  THEN /\ result.ok
                       /\ result.cmd.RedirectFile = args[k + 1]
                       /\ result.cmd.Args = SubSeq(args, 2, k - 1) \o SubSeq(args, k + 2, Len(args))
                       /\ result.cmd.Next = <<>>
                  ELSE result.ok =>
                          /\ result.cmd.Next # <<>>
                          /\ result.cmd.Args = SubSeq(args, 2, k - 1)
        /\ (/\ Len(args) > 1
            /\ \A m \in 1..(Len(args) - 1) : args[m] \notin Operators) =>
              /\ result.ok
              /\ result.cmd.Args = Tail(args)
              /\ result.cmd.RedirectFile = <<>>
              /\ result.cmd.Next = <<>>

\* echo ">" x redirects to x
C30_Witness ==
    /\ pc = "done"
    /\ line = <<"e", "c", "h", "o", Space, DoubleQuote, ">", DoubleQuote, Space, "x">>
    /\ args = <<<<"e", "c", "h", "o">>, Gt, <<"x">>>>
    /\ result.cmd.Name = <<"e", "c", "h", "o">>
    /\ result.cmd.Args = <<>>
    /\ result.cmd.RedirectFile = <<"x">>

\* echo '|' x builds a pipe
QuotedPipeSplits ==
    /\ pc = "done"
    /\ line = <<"e", "c", "h", "o", Space, SingleQuote, "|", SingleQuote, Space, "x">>
    /\ Len(ResultChain) = 2
    /\ ResultChain[2].Name = <<"x">>

\* a quoted operator that is the last token is an argument
QuotedLastIsLiteral ==
    /\ pc = "done"
    /\ line = <<"a", Space, DoubleQuote, ">", DoubleQuote>>
    /\ result.cmd.Args = <<Gt>>
    /\ result.cmd.RedirectFile = <<>>

====
